---------------------------- MODULE Spec2Model ----------------------------
(***************************************************************************)
(* A model of the typstyle formatter: the attribute pass (prop.rs), the    *)
(* converter of syntax nodes to documents (pretty/mod.rs, func_call.rs,    *)
(* code_flow.rs) and the entry point (typstyle-core/src/lib.rs).           *)
(*                                                                         *)
(* Texts are sequences of one-character strings.  Syntax nodes are records *)
(* [kind, text, ch, span]; documents are records [t, s, n, ds].            *)
(***************************************************************************)
EXTENDS Naturals, Integers, Sequences, FiniteSets, TLC

VARIABLES
    source,      \* the Source handed to format_source: [root, width]
    pc,          \* position inside format_source
    attr_store,  \* the set of format-disabled nodes, once built
    doc,         \* the document convert_markup returned
    rendered,    \* doc.pretty(max_width).to_string()
    result,      \* what format_source returned
    mode,        \* PrettyPrinter.mode: the stack of lexical modes
    frames,      \* the converter's call stack while it walks the tree
    content      \* the texts handed to format_content so far, the last one last

vars == <<source, pc, attr_store, doc, rendered, result, mode, frames, content>>

-----------------------------------------------------------------------------
(* Characters and texts *)

NL == "\n"
SP == " "
TAB == "\t"
CR == "\r"

\* char::is_whitespace, restricted to the characters of the model
WhiteSpace == {SP, TAB, NL, CR}

RECURSIVE Concat(_)
\* the concatenation of a sequence of texts
Concat(ss) == IF ss = <<>> THEN <<>> ELSE Head(ss) \o Concat(Tail(ss))

\* str::contains(char)
Contains(s, c) == \E i \in DOMAIN s : s[i] = c

\* text.chars().filter(|c| c == '\n').count()
NewlineCount(s) == Cardinality({i \in DOMAIN s : s[i] = NL})

\* str::contains(&str)
ContainsStr(s, sub) ==
    \E i \in 0..(Len(s) - Len(sub)) : SubSeq(s, i + 1, i + Len(sub)) = sub

RECURSIVE TrimEndMut(_)
\* a trim that only removes spaces
TrimEndMut(line) ==
    IF line # <<>> /\ line[Len(line)] = SP
    THEN TrimEndMut(SubSeq(line, 1, Len(line) - 1))
    ELSE line

RECURSIVE TrimEnd(_)
\* str::trim_end: drops the trailing whitespace of a line
TrimEnd(line) ==
    IF line # <<>> /\ line[Len(line)] \in WhiteSpace
    THEN TrimEnd(SubSeq(line, 1, Len(line) - 1))
    ELSE line

RECURSIVE TrimStart(_)
\* str::trim_start
TrimStart(line) ==
    IF line # <<>> /\ Head(line) \in WhiteSpace THEN TrimStart(Tail(line)) ELSE line

\* a line of str::lines(): a "\r" right before the "\n" goes with it
StripCR(line) ==
    IF line # <<>> /\ line[Len(line)] = CR THEN SubSeq(line, 1, Len(line) - 1) ELSE line

RECURSIVE LinesFrom(_, _)
\* str::lines(): the text split at every "\n"; the final line ending is
\* optional, so no empty line follows a trailing "\n"
LinesFrom(s, cur) ==
    IF s = <<>> THEN (IF cur = <<>> THEN <<>> ELSE <<cur>>)
    ELSE IF Head(s) = NL THEN <<StripCR(cur)>> \o LinesFrom(Tail(s), <<>>)
    ELSE LinesFrom(Tail(s), Append(cur, Head(s)))

Lines(s) == LinesFrom(s, <<>>)

RECURSIVE Join(_, _)
\* [&str]::join(sep)
Join(ls, sep) ==
    IF ls = <<>> THEN <<>>
    ELSE IF Len(ls) = 1 THEN ls[1]
    ELSE ls[1] \o sep \o Join(Tail(ls), sep)

\* strip_trailing_whitespace with a trim that leaves tabs
strip_trailing_whitespace_mut(s) ==
    Join([i \in DOMAIN Lines(s) |-> TrimEndMut(Lines(s)[i])], <<NL>>) \o <<NL>>

\* strip_trailing_whitespace: every line trimmed at its end, the lines joined
\* by "\n", and one "\n" appended
strip_trailing_whitespace(s) ==
    Join([i \in DOMAIN Lines(s) |-> TrimEnd(Lines(s)[i])], <<NL>>) \o <<NL>>

-----------------------------------------------------------------------------
(* Bounds of the texts the whitespace pass is checked on *)

MaxLen == 4

StripChars == {"a", SP, TAB, NL, CR}

RECURSIVE TextsUpTo(_)
TextsUpTo(n) ==
    IF n = 0 THEN {<<>>}
    ELSE LET shorter == TextsUpTo(n - 1)
         IN  shorter \cup {Append(s, c) : s \in {t \in shorter : Len(t) = n - 1}, c \in StripChars}

RenderedTexts == TextsUpTo(MaxLen)

-----------------------------------------------------------------------------
(* Syntax nodes (typst_syntax::SyntaxNode): a leaf carries its text, an    *)
(* inner node its children; span is the node's number in a numbered source *)

Leaf(k, t) == [kind |-> k, text |-> t, ch |-> <<>>, span |-> <<>>]

Inner(k, children) == [kind |-> k, text |-> <<>>, ch |-> children, span |-> <<>>]

\* a tree left without spans: every node keeps the detached span
Numbered_mut(n, path) == n

RECURSIVE Numbered(_, _)
\* Source::detached numbers the tree: every node gets a span of its own
Numbered(n, path) ==
    [n EXCEPT !.span = path,
              !.ch = [i \in DOMAIN n.ch |-> Numbered(n.ch[i], Append(path, i))]]

RECURSIVE into_text(_)
\* SyntaxNode::into_text: the source text the node covers
into_text(n) ==
    IF n.ch = <<>> THEN n.text
    ELSE Concat([i \in DOMAIN n.ch |-> into_text(n.ch[i])])

RECURSIVE erroneous(_)
\* SyntaxNode::erroneous: the node is, or contains, an error node
erroneous(n) == n.kind = "Error" \/ \E i \in DOMAIN n.ch : erroneous(n.ch[i])

RECURSIVE Descendants(_)
\* the node and every node below it
Descendants(n) == {n} \cup UNION {Descendants(n.ch[i]) : i \in DOMAIN n.ch}

\* the kinds Expr::from_untyped accepts (Space is not one of them)
ExprKinds ==
    {"Text", "Linebreak", "Parbreak", "Escape", "Shorthand", "SmartQuote",
     "Strong", "Emph", "Raw", "Link", "Label", "Ref", "Heading", "ListItem",
     "EnumItem", "TermItem", "Equation", "Math", "MathIdent", "MathAlignPoint",
     "MathDelimited", "MathAttach", "MathPrimes", "MathFrac", "MathRoot",
     "MathShorthand", "Ident", "None", "Auto", "Bool", "Int", "Float",
     "Numeric", "Str", "CodeBlock", "ContentBlock", "Parenthesized", "Array",
     "Dict", "Unary", "Binary", "FieldAccess", "FuncCall", "Closure",
     "LetBinding", "DestructAssignment", "SetRule", "ShowRule", "Conditional",
     "WhileLoop", "ForLoop", "ModuleImport", "ModuleInclude", "LoopBreak",
     "LoopContinue", "FuncReturn", "Contextual"}

IsExpr(n) == n.kind \in ExprKinds

\* Arg::from_untyped: a named pair, a spread, or any expression
IsArg(n) == n.kind \in {"Named", "Spread"} \/ IsExpr(n)

\* util::is_comment_node
is_comment_node(n) == n.kind \in {"LineComment", "BlockComment"}

\* SyntaxKind::is_stmt
is_stmt(n) == n.kind \in {"LetBinding", "SetRule", "ShowRule", "ModuleImport", "ModuleInclude"}

\* the index of the first child of the kind, 0 when there is none
FirstIndex(children, kind) ==
    IF \E i \in DOMAIN children : children[i].kind = kind
    THEN CHOOSE i \in DOMAIN children :
            /\ children[i].kind = kind
            /\ \A j \in 1..(i - 1) : children[j].kind # kind
    ELSE 0

-----------------------------------------------------------------------------
(* The attribute pass: prop.rs *)

\* the marker "@typstyle off"
Sentinel == <<"@", "t", "y", "p", "s", "t", "y", "l", "e", " ", "o", "f", "f">>

\* an is_2d_arg that never finds a row separator
is_2d_arg_mut(arg) == FALSE

\* is_2d_arg: an argument list with a row separator
is_2d_arg(arg) == \E i \in DOMAIN arg.ch : arg.ch[i].kind = "Semicolon"

\* the kind test as a conjunction: false for the three kinds
KindTest_mut(node) ==
    /\ node.kind # "ContentBlock"
    /\ node.kind # "CodeBlock"
    /\ node.kind # "Code"

\* the three-way kind test of get_no_format_nodes_impl
KindTest(node) ==
    \/ node.kind # "ContentBlock"
    \/ node.kind # "CodeBlock"
    \/ node.kind # "Code"

\* a flag that stays set once a sibling was marked
no_format_reset_mut == TRUE

\* "no_format = false;": the flag after the sibling it marked
no_format_reset == FALSE

RECURSIVE get_no_format_nodes_impl(_, _)
RECURSIVE no_format_loop(_, _, _, _)
\* the loop over node's children from child i on, with the flag no_format
\* and the set collected so far
no_format_loop(node, i, no_format, map) ==
    IF i > Len(node.ch) THEN map
    ELSE LET child == node.ch[i] IN
         IF is_comment_node(child)
         THEN LET off == ContainsStr(child.text, Sentinel)
                  m1 == IF off THEN map \cup {child} ELSE map
                  m2 == IF KindTest(node) THEN m1 \cup {node} ELSE m1
              IN  no_format_loop(node, i + 1, no_format \/ off, m2)
         ELSE IF child.kind = "Args" /\ is_2d_arg(child)
         THEN no_format_loop(node, i + 1, no_format, map \cup {child})
         ELSE IF child.ch = <<>>
         THEN no_format_loop(node, i + 1, no_format, map)
         ELSE IF no_format
         THEN no_format_loop(node, i + 1, no_format_reset, map \cup {child})
         ELSE no_format_loop(node, i + 1, no_format,
                             get_no_format_nodes_impl(child, map))

get_no_format_nodes_impl(node, map) ==
    IF node \in map THEN map ELSE no_format_loop(node, 1, FALSE, map)

\* get_no_format_nodes: the set of format-disabled nodes of a tree
get_no_format_nodes(root) == get_no_format_nodes_impl(root, {})

\* AttrStore::is_node_format_disabled
is_node_format_disabled(store, node) == node \in store

-----------------------------------------------------------------------------
(* Documents (the pretty crate): [t, s, n, ds]                             *)

Nil == [t |-> "nil", s |-> <<>>, n |-> 0, ds |-> <<>>]

\* arena.text(s)
Text(s) == [t |-> "text", s |-> s, n |-> 0, ds |-> <<>>]

\* arena.space() is the text " "
Space == Text(<<SP>>)

\* arena.hardline(): always a line break
Hardline == [t |-> "hardline", s |-> <<>>, n |-> 0, ds |-> <<>>]

\* arena.line(): a space when flat, a line break when broken
Line == [t |-> "line", s |-> <<>>, n |-> 0, ds |-> <<>>]

\* arena.line_(): nothing when flat, a line break when broken
Line_ == [t |-> "line_", s |-> <<>>, n |-> 0, ds |-> <<>>]

\* the concatenation of documents
Cat(ds) == [t |-> "cat", s |-> <<>>, n |-> 0, ds |-> ds]

\* doc.nest(n)
Nest(n, d) == [t |-> "nest", s |-> <<>>, n |-> n, ds |-> <<d>>]

\* doc.group()
Group(d) == [t |-> "group", s |-> <<>>, n |-> 0, ds |-> <<d>>]

\* a document printed only when its group is broken (flat_alt(d, nil))
IfBreak(d) == [t |-> "if_break", s |-> <<>>, n |-> 0, ds |-> <<d>>]

RECURSIVE Intersperse(_, _)
\* arena.intersperse(docs, sep)
Intersperse(ds, sep) ==
    IF Len(ds) <= 1 THEN ds
    ELSE <<Head(ds), sep>> \o Intersperse(Tail(ds), sep)

RECURSIVE Spaces(_)
Spaces(n) == IF n = 0 THEN <<>> ELSE <<SP>> \o Spaces(n - 1)

\* a command of the renderer: a document with its indentation and mode
Cmd(ind, flat, d) == [ind |-> ind, flat |-> flat, d |-> d]

RECURSIVE Fitting(_, _, _, _)
\* pretty's fitting: whether the flat commands fcmds, followed by the pending
\* commands bcmds in break mode, stay within the width up to the next line break
Fitting(fcmds, bcmds, pos, width) ==
    IF fcmds = <<>>
    THEN IF bcmds = <<>> THEN TRUE
         ELSE Fitting(<<Cmd(0, FALSE, Head(bcmds).d)>>, Tail(bcmds), pos, width)
    ELSE LET c == Head(fcmds)
             rest == Tail(fcmds)
             d == c.d
         IN  CASE d.t = "nil" -> Fitting(rest, bcmds, pos, width)
               [] d.t = "cat" ->
                    Fitting([i \in DOMAIN d.ds |-> Cmd(0, c.flat, d.ds[i])] \o rest,
                            bcmds, pos, width)
               [] d.t = "hardline" -> ~c.flat
               [] d.t = "text" ->
                    IF pos + Len(d.s) > width THEN FALSE
                    ELSE Fitting(rest, bcmds, pos + Len(d.s), width)
               [] d.t = "line" ->
                    IF ~c.flat THEN TRUE
                    ELSE IF pos + 1 > width THEN FALSE
                    ELSE Fitting(rest, bcmds, pos + 1, width)
               [] d.t = "line_" ->
                    IF ~c.flat THEN TRUE ELSE Fitting(rest, bcmds, pos, width)
               [] d.t = "if_break" ->
                    IF c.flat THEN Fitting(rest, bcmds, pos, width)
                    ELSE Fitting(<<Cmd(0, FALSE, d.ds[1])>> \o rest, bcmds, pos, width)
               [] d.t \in {"nest", "group"} ->
                    Fitting(<<Cmd(0, c.flat, d.ds[1])>> \o rest, bcmds, pos, width)

RECURSIVE Best(_, _, _)
\* pretty's best: the text of the command stack, written from column pos
Best(cmds, pos, width) ==
    IF cmds = <<>> THEN <<>>
    ELSE LET c == Head(cmds)
             rest == Tail(cmds)
             d == c.d
             newline == <<NL>> \o Spaces(c.ind) \o Best(rest, c.ind, width)
         IN  CASE d.t = "nil" -> Best(rest, pos, width)
               [] d.t = "cat" ->
                    Best([i \in DOMAIN d.ds |-> Cmd(c.ind, c.flat, d.ds[i])] \o rest,
                         pos, width)
               [] d.t = "hardline" -> newline
               [] d.t = "text" -> d.s \o Best(rest, pos + Len(d.s), width)
               [] d.t = "line" ->
                    IF c.flat THEN <<SP>> \o Best(rest, pos + 1, width) ELSE newline
               [] d.t = "line_" ->
                    IF c.flat THEN Best(rest, pos, width) ELSE newline
               [] d.t = "if_break" ->
                    IF c.flat THEN Best(rest, pos, width)
                    ELSE Best(<<Cmd(c.ind, FALSE, d.ds[1])>> \o rest, pos, width)
               [] d.t = "nest" ->
                    Best(<<Cmd(c.ind + d.n, c.flat, d.ds[1])>> \o rest, pos, width)
               [] d.t = "group" ->
                    IF c.flat \/ Fitting(<<Cmd(0, TRUE, d.ds[1])>>, rest, pos, width)
                    THEN Best(<<Cmd(c.ind, TRUE, d.ds[1])>> \o rest, pos, width)
                    ELSE Best(<<Cmd(c.ind, FALSE, d.ds[1])>> \o rest, pos, width)

\* doc.pretty(width).to_string()
Pretty(d, width) == Best(<<Cmd(0, FALSE, d)>>, 0, width)

-----------------------------------------------------------------------------
(* Leaves of the converter: pretty/mod.rs *)

\* a failed unwrap: the conversion panics
Panic == [t |-> "panic", s |-> <<>>, n |-> 0, ds |-> <<>>]

RECURSIVE HasPanic(_)
HasPanic(d) == d.t = "panic" \/ \E i \in DOMAIN d.ds : HasPanic(d.ds[i])

\* itertools::Position of line i among n lines
Position(i, n) ==
    IF n = 1 THEN "Only" ELSE IF i = 1 THEN "First" ELSE IF i = n THEN "Last" ELSE "Middle"

\* a to_doc that forgets the line break the text ends with
to_doc_mut(s, strip_prefix) ==
    LET ls == Lines(s)
        should_trim(i) ==
            \/ strip_prefix = "Prefix"
            \/ /\ strip_prefix = "PrefixOnBoundaryMarkers"
               /\ Position(i, Len(ls)) \in {"First", "Last", "Only"}
        get_line(i) == IF should_trim(i) THEN TrimStart(ls[i]) ELSE ls[i]
    IN  Cat(Intersperse([i \in DOMAIN ls |-> Text(get_line(i))], Hardline))

\* to_doc: one text per line of s, hard line breaks between them, and one
\* more when s ends with a line break
to_doc(s, strip_prefix) ==
    LET ls == Lines(s)
        should_trim(i) ==
            \/ strip_prefix = "Prefix"
            \/ /\ strip_prefix = "PrefixOnBoundaryMarkers"
               /\ Position(i, Len(ls)) \in {"First", "Last", "Only"}
        get_line(i) == IF should_trim(i) THEN TrimStart(ls[i]) ELSE ls[i]
        res == Cat(Intersperse([i \in DOMAIN ls |-> Text(get_line(i))], Hardline))
    IN  IF s # <<>> /\ s[Len(s)] = NL THEN Cat(<<res, Hardline>>) ELSE res

trivia(node) == to_doc(node.text, "None")

trivia_prefix(node) == to_doc(node.text, "Prefix")

\* format_disabled: the node's source text as one text
format_disabled(node) == Text(into_text(node))

\* convert_space: one hard line break when the whitespace holds a line
\* break, one space otherwise
convert_space(space) == IF Contains(space.text, NL) THEN Hardline ELSE Space

\* convert_parbreak: one hard line break per line break of the node
convert_parbreak(parbreak) ==
    Cat([i \in 1..NewlineCount(parbreak.text) |-> Hardline])

\* convert_raw: the delimiters, the language tag and the lines as written;
\* trimmed whitespace becomes one space or one hard line break
convert_raw(raw) ==
    Cat([i \in DOMAIN raw.ch |->
        LET child == raw.ch[i] IN
        IF child.kind \in {"RawDelim", "RawLang", "Text"} THEN trivia(child)
        ELSE IF child.kind = "RawTrimmed"
        THEN (IF Contains(child.text, NL) THEN Hardline ELSE Space)
        ELSE Nil])

\* comment.rs: a comment is printed with its text
convert_comment(node) == to_doc(node.text, "None")

\* Equation::block: the body is padded by spaces inside the dollars
equation_block(eq) ==
    /\ Len(eq.ch) >= 4
    /\ eq.ch[2].kind = "Space"
    /\ eq.ch[Len(eq.ch) - 1].kind = "Space"

\* Raw::block: a raw text of three backticks with a line break
raw_block(raw) == Contains(into_text(raw), NL)

\* AttrStore::is_node_multiline: the node's source span holds a line break
is_node_multiline(node) == Contains(into_text(node), NL)

\* AttrStore::is_node_unformattable: a field access holding a comment
is_node_unformattable(node) == \E i \in DOMAIN node.ch : is_comment_node(node.ch[i])

\* the first child of the kind
Child(node, kind) == node.ch[FirstIndex(node.ch, kind)]

RECURSIVE markup_lines(_, _, _)
\* the first loop of convert_markup: the children cut into lines, each with
\* its has_text flag; cur is the line being collected
markup_lines(children, i, cur) ==
    IF i > Len(children)
    THEN IF cur.nodes # <<>> THEN <<cur>> ELSE <<>>
    ELSE LET node == children[i]
             is_space == node.kind = "Space"
             is_pb == ~is_space /\ node.kind = "Parbreak"
             is_expr == ~is_space /\ ~is_pb /\ ~is_stmt(node) /\ IsExpr(node)
             break_line ==
                 \/ (is_space \/ is_pb) /\ Contains(node.text, NL)
                 \/ ~is_space /\ ~is_pb /\ is_stmt(node)
                 \/ is_expr /\ node.kind = "Raw" /\ raw_block(node)
                 \/ is_expr /\ node.kind = "CodeBlock"
                 \/ is_expr /\ node.kind = "Equation" /\ equation_block(node)
             text ==
                 is_expr /\ \/ node.kind \in {"Text", "Strong", "Emph"}
                            \/ node.kind = "Raw" /\ ~raw_block(node)
             line == [has_text |-> cur.has_text \/ text,
                      nodes |-> Append(cur.nodes, node)]
         IN  IF break_line
             THEN <<line>> \o markup_lines(children, i + 1, [has_text |-> FALSE, nodes |-> <<>>])
             ELSE markup_lines(children, i + 1, line)

-----------------------------------------------------------------------------
(* Helpers of the list layouts: pretty/util.rs, items.rs, flow.rs, table.rs *)

BlankLinesUpperBound == 2

\* doc.enclose(open, close)
Enclose(d, open, close) == Cat(<<Text(open), d, Text(close)>>)

\* util::comma_seprated_items: Fit tries one line and, broken, puts one item
\* per line with a trailing comma; Never always breaks
comma_seprated_items(items, fold_style) ==
    IF fold_style = "Never"
    THEN Cat(<<Text(<<"(">>),
               Nest(2, Cat(<<Hardline>> \o
                           Intersperse(items, Cat(<<Text(<<",">>), Hardline>>)) \o
                           <<Text(<<",">>)>>)),
               Hardline, Text(<<")">>)>>)
    ELSE Group(Cat(<<Text(<<"(">>),
                     Nest(2, Cat(<<Line_>> \o
                                 Intersperse(items, Cat(<<Text(<<",">>), Line>>)) \o
                                 <<IfBreak(Text(<<",">>))>>)),
                     Line_, Text(<<")">>)>>))

\* items::pretty_items for a code block: braces around the items, on one
\* line separated by "; " or one item per line
pretty_items(items, fold_style) ==
    IF items = <<>> THEN Text(<<"{", "}">>)
    ELSE IF fold_style = "Never"
    THEN Cat(<<Text(<<"{">>),
               Nest(2, Cat(<<Hardline>> \o Intersperse(items, Hardline))),
               Hardline, Text(<<"}">>)>>)
    ELSE Group(Cat(<<Text(<<"{">>),
                     Nest(2, Cat(<<Line>> \o
                                 Intersperse(items, Cat(<<Text(<<";">>), Line>>)))),
                     Line, Text(<<"}">>)>>))

RECURSIVE flow_join(_, _, _)
\* flow::convert_flow_like: the items in order, a space between two of them
\* when the first is spaced after and the second spaced before
flow_join(items, i, prev_after) ==
    IF i > Len(items) THEN <<>>
    ELSE LET it == items[i] IN
         IF ~it.present THEN flow_join(items, i + 1, prev_after)
         ELSE (IF prev_after /\ it.before THEN <<Space>> ELSE <<>>) \o <<it.doc>>
              \o flow_join(items, i + 1, it.after)

convert_flow_like(items) == Cat(flow_join(items, 1, FALSE))

\* FlowItem::new and FlowItem::none
FlowItem(d, before, after) == [present |-> TRUE, doc |-> d, before |-> before, after |-> after]

FlowNone == [present |-> FALSE, doc |-> Nil, before |-> FALSE, after |-> FALSE]

\* the number of earlier children of the node that are expressions
ExprsBefore(node, i) == Cardinality({j \in 1..(i - 1) : IsExpr(node.ch[j])})

\* util::has_parenthesized_args
has_parenthesized_args(func_call) ==
    FirstIndex(Child(func_call, "Args").ch, "LeftParen") # 0

\* table::is_table: the callee is one of the table identifiers
is_table(func_call) ==
    /\ func_call.ch[1].kind = "Ident"
    /\ func_call.ch[1].text \in {<<"t", "a", "b", "l", "e">>, <<"g", "r", "i", "d">>}

\* the children of an argument list before its right parenthesis
BeforeRightParen(args) ==
    LET r == FirstIndex(args.ch, "RightParen")
    IN  IF r = 0 THEN args.ch ELSE SubSeq(args.ch, 1, r - 1)

\* util::get_parenthesized_args: the arguments before the right parenthesis
get_parenthesized_args(args) == SelectSeq(BeforeRightParen(args), IsArg)

\* util::get_parenthesized_args_untyped: the children between the parentheses
get_parenthesized_args_untyped(args) ==
    LET l == FirstIndex(args.ch, "LeftParen")
        inner == BeforeRightParen(args)
    IN  SubSeq(inner, l + 1, Len(inner))

\* the digits an Int leaf may hold in the model
IntValue(n) ==
    CASE n.text = <<"1">> -> 1 [] n.text = <<"2">> -> 2 [] n.text = <<"3">> -> 3 [] OTHER -> 0

\* table::is_formatable_table: the column count a named argument "columns"
\* gives, 0 for none
is_formatable_table(func_call) ==
    LET named == SelectSeq(get_parenthesized_args(Child(func_call, "Args")),
                    LAMBDA a : /\ a.kind = "Named"
                               /\ a.ch[1].text = <<"c", "o", "l", "u", "m", "n", "s">>
                               /\ a.ch[Len(a.ch)].kind = "Int")
    IN  IF named = <<>> THEN 0 ELSE IntValue(named[1].ch[Len(named[1].ch)])

-----------------------------------------------------------------------------
(* The converter: pretty/mod.rs, func_call.rs, code_flow.rs.  st is the    *)
(* attribute store and m the mode on top of the mode stack.                *)

RECURSIVE convert_markup(_, _)
RECURSIVE convert_expr(_, _, _)
RECURSIVE convert_equation(_, _)
RECURSIVE convert_math(_, _, _)
RECURSIVE convert_code_block(_, _)
RECURSIVE convert_code(_, _, _, _, _)
RECURSIVE convert_content_block(_, _)
RECURSIVE convert_field_access(_, _, _)
RECURSIVE resolve_dot_chain(_, _, _)
RECURSIVE convert_func_call(_, _, _)
RECURSIVE convert_parenthesized_args(_, _, _)
RECURSIVE convert_parenthesized_args_as_is(_, _, _)
RECURSIVE convert_parenthesized_args_impl(_, _, _)
RECURSIVE convert_additional_args(_, _, _, _)
RECURSIVE convert_table(_, _, _, _)
RECURSIVE convert_arg(_, _, _)
RECURSIVE convert_named(_, _, _)
RECURSIVE convert_spread(_, _, _)

\* check_disabled
check_disabled(st, node) == is_node_format_disabled(st, node)

\* convert_markup: the body is cut into lines; a line with prose text is
\* printed as it is, a line without is rebuilt from its converted nodes
convert_markup(st, root) ==
    LET lines == markup_lines(root.ch, 1, [has_text |-> FALSE, nodes |-> <<>>])
        node_doc(has_text, node) ==
            IF node.kind = "Space" THEN convert_space(node)
            ELSE IF node.kind = "Parbreak" THEN convert_parbreak(node)
            ELSE IF has_text THEN format_disabled(node)
            ELSE IF IsExpr(node) THEN convert_expr(st, "Markup", node)
            ELSE IF is_comment_node(node) THEN convert_comment(node)
            ELSE trivia_prefix(node)
        line_doc(line) ==
            Cat([j \in DOMAIN line.nodes |-> node_doc(line.has_text, line.nodes[j])])
    IN  Cat([i \in DOMAIN lines |-> line_doc(lines[i])])

\* convert_expr: a disabled node is printed verbatim; any other one by the
\* rule of its kind, as a group
convert_expr(st, m, expr) ==
    IF check_disabled(st, expr) THEN format_disabled(expr)
    ELSE Group(
        CASE expr.kind \in {"Text", "Linebreak", "Escape", "Shorthand", "SmartQuote",
                            "Link", "Label", "MathIdent", "MathAlignPoint",
                            "MathShorthand", "Bool", "Int", "Float", "Numeric", "Str"}
                -> trivia(expr)
          [] expr.kind = "Parbreak" -> convert_parbreak(expr)
          [] expr.kind = "Ident" -> Text(expr.text)
          [] expr.kind = "Strong" ->
                Enclose(convert_markup(st, Child(expr, "Markup")), <<"*">>, <<"*">>)
          [] expr.kind = "Emph" ->
                Enclose(convert_markup(st, Child(expr, "Markup")), <<"_">>, <<"_">>)
          [] expr.kind = "Raw" -> convert_raw(expr)
          [] expr.kind = "Equation" -> convert_equation(st, expr)
          [] expr.kind = "Math" -> convert_math(st, m, expr)
          [] expr.kind = "CodeBlock" -> convert_code_block(st, expr)
          [] expr.kind = "ContentBlock" -> convert_content_block(st, expr)
          [] expr.kind = "FieldAccess" -> convert_field_access(st, m, expr)
          [] expr.kind = "FuncCall" -> convert_func_call(st, m, expr))

\* convert_equation: the body in Math mode between dollars; a block equation
\* keeps its line breaks when its source had one
convert_equation(st, equation) ==
    LET body == convert_math(st, "Math", Child(equation, "Math"))
        block_sep == IF is_node_multiline(equation) THEN Hardline ELSE Line
        inner == IF equation_block(equation)
                 THEN Cat(<<Nest(2, Cat(<<block_sep, body>>)), block_sep>>)
                 ELSE Nest(2, body)
    IN  Enclose(inner, <<"$">>, <<"$">>)

convert_math(st, m, math) ==
    IF check_disabled(st, math) THEN format_disabled(math)
    ELSE Cat([i \in DOMAIN math.ch |->
                IF IsExpr(math.ch[i]) THEN convert_expr(st, m, math.ch[i])
                ELSE IF math.ch[i].kind = "Space" THEN convert_space(math.ch[i])
                ELSE trivia(math.ch[i])])

RECURSIVE StripTrailingSpace(_)
\* convert_code: "strip trailing empty lines"
StripTrailingSpace(code) ==
    IF code # <<>> /\ code[Len(code)].kind = "Space"
    THEN StripTrailingSpace(SubSeq(code, 1, Len(code) - 1))
    ELSE code

\* a count of blank lines that forgets the upper bound
blank_lines_mut(newline_cnt) == newline_cnt - 1

\* (newline_cnt - 1).min(self.config.blank_lines_upper_bound)
blank_lines(newline_cnt) ==
    IF newline_cnt - 1 < BlankLinesUpperBound THEN newline_cnt - 1 ELSE BlankLinesUpperBound

\* the flag a comment may attach with, as convert_code starts
CanAttachAtStart == FALSE

\* a flag left up by a comment: the next comment attaches as well
can_attach_after_comment_mut == TRUE

\* "can_attach_comment = false;" after a comment
can_attach_after_comment == FALSE

\* convert_code, from node i on: codes are the items so far, can_attach says
\* whether a comment can follow the last item on its line
convert_code(st, code, i, codes, can_attach) ==
    IF i > Len(code) THEN codes
    ELSE LET node == code[i] IN
         IF IsExpr(node)
         THEN convert_code(st, code, i + 1,
                           Append(codes, convert_expr(st, "Code", node)), TRUE)
         ELSE IF is_comment_node(node)
         THEN IF can_attach
              THEN IF codes = <<>>
                   THEN <<Panic>>
                   ELSE convert_code(st, code, i + 1,
                            Append(SubSeq(codes, 1, Len(codes) - 1),
                                   Cat(<<codes[Len(codes)], Space, convert_comment(node)>>)),
                            can_attach_after_comment)
              ELSE convert_code(st, code, i + 1, Append(codes, convert_comment(node)),
                                can_attach_after_comment)
         ELSE IF node.kind = "Space"
         THEN LET newline_cnt == NewlineCount(node.text)
                  blanks == IF newline_cnt > 0 THEN blank_lines(newline_cnt) ELSE 0
              IN  IF newline_cnt > 0
                  THEN convert_code(st, code, i + 1,
                           IF codes # <<>> THEN codes \o [k \in 1..blanks |-> Nil] ELSE codes,
                           FALSE)
                  ELSE convert_code(st, code, i + 1, codes, can_attach)
         ELSE convert_code(st, code, i + 1, codes, can_attach)

\* convert_code_block: the statements, spaces and comments of the block in
\* Code mode, laid out by pretty_items
convert_code_block(st, code_block) ==
    LET code_nodes ==
            Concat([i \in DOMAIN code_block.ch |->
                LET node == code_block.ch[i] IN
                IF node.kind = "Code" THEN node.ch
                ELSE IF node.kind = "Space" \/ is_comment_node(node) THEN <<node>>
                ELSE <<>>])
        has_comment == \E i \in DOMAIN code_block.ch : is_comment_node(code_block.ch[i])
        codes == convert_code(st, StripTrailingSpace(code_nodes), 1, <<>>, CanAttachAtStart)
        fold == IF Len(codes) = 1 /\ ~has_comment
                THEN (IF is_node_multiline(code_block) THEN "Never" ELSE "Fit")
                ELSE "Never"
    IN  pretty_items(codes, fold)

convert_content_block(st, content_block) ==
    Enclose(Nest(2, Group(convert_markup(st, Child(content_block, "Markup")))),
            <<"[">>, <<"]">>)

\* dot_chain::resolve_dot_chain: the segments of a chain of field accesses,
\* first the converted innermost target, then the fields in source order
resolve_dot_chain(st, m, field_access) ==
    LET target == field_access.ch[1]
        field == field_access.ch[Len(field_access.ch)]
    IN  IF target.kind = "FieldAccess" /\ ~check_disabled(st, target)
        THEN Append(resolve_dot_chain(st, m, target), Text(field.text))
        ELSE <<convert_expr(st, m, target), Text(field.text)>>

\* a convert_field_access without the case of two segments
convert_field_access_mut(st, m, field_access) ==
    IF is_node_unformattable(field_access) THEN format_disabled(field_access)
    ELSE LET chain == resolve_dot_chain(st, m, field_access)
             target == field_access.ch[1]
             field == field_access.ch[Len(field_access.ch)]
         IN  IF m \in {"Markup", "Math"}
             THEN Cat(<<convert_expr(st, m, target), Text(<<".">>), Text(field.text)>>)
             ELSE Cat(<<chain[1],
                        Group(Nest(2, Cat(<<Line_, Text(<<".">>)>> \o
                            Intersperse(Tail(chain), Cat(<<Line_, Text(<<".">>)>>)))))>>)

\* a convert_field_access that flattens the chain in every mode
convert_field_access_any_mode(st, m, field_access) ==
    IF is_node_unformattable(field_access) THEN format_disabled(field_access)
    ELSE LET chain == resolve_dot_chain(st, m, field_access)
         IN  IF Len(chain) = 2
             THEN Cat(<<chain[1], Text(<<".">>), chain[2]>>)
             ELSE Cat(<<chain[1],
                        Group(Nest(2, Cat(<<Line_, Text(<<".">>)>> \o
                            Intersperse(Tail(chain), Cat(<<Line_, Text(<<".">>)>>)))))>>)

\* convert_field_access
convert_field_access(st, m, field_access) ==
    IF is_node_unformattable(field_access) THEN format_disabled(field_access)
    ELSE LET chain == resolve_dot_chain(st, m, field_access)
             target == field_access.ch[1]
             field == field_access.ch[Len(field_access.ch)]
         IN  IF m \in {"Markup", "Math"}
             THEN Cat(<<convert_expr(st, m, target), Text(<<".">>), Text(field.text)>>)
             ELSE IF Len(chain) = 2
             THEN Cat(<<chain[1], Text(<<".">>), chain[2]>>)
             ELSE Cat(<<chain[1],
                        Group(Nest(2, Cat(<<Line_, Text(<<".">>)>> \o
                            Intersperse(Tail(chain), Cat(<<Line_, Text(<<".">>)>>)))))>>)

\* a convert_func_call that lays out the list of a table without column
\* count like any other list
convert_func_call_mut(st, m, func_call) ==
    LET callee == convert_expr(st, m, func_call.ch[1])
        args == Child(func_call, "Args")
        has_paren == has_parenthesized_args(func_call)
        cols == is_formatable_table(func_call)
        list == IF is_table(func_call) /\ cols # 0
                THEN convert_table(st, m, func_call, cols)
                ELSE IF has_paren THEN convert_parenthesized_args(st, m, args)
                ELSE Nil
    IN  IF check_disabled(st, args)
        THEN Cat(<<callee, format_disabled(args)>>)
        ELSE Cat(<<callee, list, convert_additional_args(st, m, args, has_paren)>>)

\* convert_func_call: the callee, then the arguments: verbatim when they are
\* disabled, else the parenthesized list and the trailing content blocks
convert_func_call(st, m, func_call) ==
    LET callee == convert_expr(st, m, func_call.ch[1])
        args == Child(func_call, "Args")
        has_paren == has_parenthesized_args(func_call)
        cols == is_formatable_table(func_call)
        list == IF is_table(func_call)
                THEN IF cols # 0 THEN convert_table(st, m, func_call, cols)
                     ELSE IF has_paren THEN convert_parenthesized_args_as_is(st, m, args)
                     ELSE Nil
                ELSE IF has_paren THEN convert_parenthesized_args(st, m, args)
                ELSE Nil
    IN  IF check_disabled(st, args)
        THEN Cat(<<callee, format_disabled(args)>>)
        ELSE Cat(<<callee, list, convert_additional_args(st, m, args, has_paren)>>)

\* the first whitespace child the loop of convert_parenthesized_args_impl
\* looks at: it stops at the first one
FirstSpaceMultiline(args) ==
    LET before == BeforeRightParen(args)
        i == FirstIndex(before, "Space")
    IN  i # 0 /\ Contains(before[i].text, NL)

\* the expression prefer_tighter looks at: the argument, or the value of a
\* named or spread one
ArgRhs(arg) ==
    IF arg.kind \in {"Named", "Spread"} THEN arg.ch[Len(arg.ch)] ELSE arg

\* a prefer_tighter that forgets the call test
prefer_tighter_mut(arg_nodes) == Len(arg_nodes) <= 1

\* "We prefer tighter style if there are no arguments, or there is only one
\* argument and it is not a function call"; a last_arg of None panics
prefer_tighter(arg_nodes) ==
    LET last_arg == IF arg_nodes = <<>> THEN <<>> ELSE <<arg_nodes[Len(arg_nodes)]>>
    IN  \/ arg_nodes = <<>>
        \/ /\ Len(arg_nodes) = 1
           /\ last_arg # <<>>
           /\ ArgRhs(last_arg[1]).kind # "FuncCall"

\* last_arg.unwrap() fails: one argument was collected and none was kept
last_arg_unwrap_fails(arg_nodes) ==
    LET last_arg == IF arg_nodes = <<>> THEN <<>> ELSE <<arg_nodes[Len(arg_nodes)]>>
    IN  Len(arg_nodes) = 1 /\ last_arg = <<>>

\* convert_parenthesized_args_impl: the converted arguments, whether the
\* tighter style is preferred, and whether the list counts as multiline
convert_parenthesized_args_impl(st, m, args) ==
    LET arg_nodes == get_parenthesized_args(args)
    IN  [args |-> [i \in DOMAIN arg_nodes |-> convert_arg(st, m, arg_nodes[i])],
         panic |-> last_arg_unwrap_fails(arg_nodes),
         prefer_tighter |-> prefer_tighter(arg_nodes),
         is_multiline |-> \/ FirstSpaceMultiline(args)
                          \/ \E i \in DOMAIN arg_nodes : is_node_multiline(arg_nodes[i])]

\* a choice of fold style with its two branches swapped
ArgsFoldStyle_mut(is_multiline) == IF is_multiline THEN "Fit" ELSE "Never"

\* the fold style convert_parenthesized_args hands to comma_seprated_items
ArgsFoldStyle(is_multiline) == IF is_multiline THEN "Never" ELSE "Fit"

convert_parenthesized_args(st, m, args) ==
    LET r == convert_parenthesized_args_impl(st, m, args)
    IN  IF r.panic THEN Panic
        ELSE IF r.prefer_tighter
        THEN Cat(<<Text(<<"(">>),
                   IF r.args = <<>> THEN Nil ELSE r.args[1],
                   Text(<<")">>)>>)
        ELSE comma_seprated_items(r.args, ArgsFoldStyle(r.is_multiline))

\* the ParenthesizedFuncCallArg parse_args makes of a child without Space in
\* its match: a whitespace child is cast like an argument
parse_arg_mut(node) ==
    CASE node.kind = "Comma" -> [tag |-> "Comma", n |-> 0]
      [] node.kind = "LineComment" -> [tag |-> "LineComment", n |-> 0]
      [] node.kind = "BlockComment" -> [tag |-> "BlockComment", n |-> 0]
      [] OTHER -> IF IsArg(node) THEN [tag |-> "Argument", n |-> 0]
                  ELSE [tag |-> "unwrap failed", n |-> 0]

\* parse_args, for one child between the parentheses: a comma, a space, n
\* line breaks, a comment, or an argument; node.cast::<Arg>().unwrap() fails
\* on any other child
parse_arg(node) ==
    CASE node.kind = "Comma" -> [tag |-> "Comma", n |-> 0]
      [] node.kind = "Space" ->
            IF NewlineCount(node.text) > 0
            THEN [tag |-> "Newline", n |-> NewlineCount(node.text)]
            ELSE [tag |-> "Space", n |-> 0]
      [] node.kind = "LineComment" -> [tag |-> "LineComment", n |-> 0]
      [] node.kind = "BlockComment" -> [tag |-> "BlockComment", n |-> 0]
      [] OTHER -> IF IsArg(node) THEN [tag |-> "Argument", n |-> 0]
                  ELSE [tag |-> "unwrap failed", n |-> 0]

\* convert_parenthesized_args_as_is: the children between the parentheses in
\* order, each argument converted, the rest replayed
convert_parenthesized_args_as_is(st, m, args) ==
    LET nodes == get_parenthesized_args_untyped(args)
        one(node) ==
            LET a == parse_arg(node) IN
            CASE a.tag = "Argument" -> convert_arg(st, m, node)
              [] a.tag = "Comma" -> Text(<<",">>)
              [] a.tag = "Space" -> Space
              [] a.tag = "Newline" -> Cat([k \in 1..a.n |-> Hardline])
              [] a.tag \in {"LineComment", "BlockComment"} -> trivia(node)
              [] a.tag = "unwrap failed" -> Panic
    IN  Cat(<<Text(<<"(">>),
              Nest(2, Cat([i \in DOMAIN nodes |-> one(nodes[i])])),
              Text(<<")">>)>>)

\* additional arguments taken without the skip_while: every argument
additional_args_mut(args, has_paren) == SelectSeq(args.ch, IsArg)

\* the arguments convert_additional_args converts: those after the right
\* parenthesis, or from the first content block on when there are no
\* parentheses
additional_args(args, has_paren) ==
    LET start == FirstIndex(args.ch, IF has_paren THEN "RightParen" ELSE "ContentBlock")
        rest == IF start = 0 THEN <<>> ELSE SubSeq(args.ch, start, Len(args.ch))
    IN  SelectSeq(rest, IsArg)

\* convert_additional_args: the additional arguments converted, one after
\* the other, as one group
convert_additional_args(st, m, args, has_paren) ==
    LET extra == additional_args(args, has_paren)
    IN  Group(Cat([i \in DOMAIN extra |-> convert_arg(st, m, extra[i])]))

\* table::convert_table: the cells in rows of cols columns, one row per line
convert_table(st, m, func_call, cols) ==
    LET arg_nodes == get_parenthesized_args(Child(func_call, "Args"))
        cell(i) == Cat(<<convert_arg(st, m, arg_nodes[i]), Text(<<",">>)>>)
        sep(i) == IF i % cols = 0 THEN Hardline ELSE Space
    IN  Cat(<<Text(<<"(">>),
              Nest(2, Cat(<<Hardline>> \o
                          [i \in DOMAIN arg_nodes |->
                              IF i = Len(arg_nodes) THEN cell(i)
                              ELSE Cat(<<cell(i), sep(i)>>)])),
              Hardline, Text(<<")">>)>>)

convert_arg(st, m, arg) ==
    CASE arg.kind = "Named" -> convert_named(st, m, arg)
      [] arg.kind = "Spread" -> convert_spread(st, m, arg)
      [] OTHER -> convert_expr(st, m, arg)

\* convert_underscore
convert_underscore(underscore) == Text(<<"_">>)

\* convert_named: the colon tight before and spaced after; an expression
\* spaced before once an earlier one has set the seen flag
convert_named(st, m, named) ==
    convert_flow_like([i \in DOMAIN named.ch |->
        LET child == named.ch[i] IN
        CASE child.kind = "Colon" -> FlowItem(Text(<<":">>), FALSE, TRUE)
          [] child.kind = "Hash" -> FlowItem(Text(<<"#">>), TRUE, FALSE)
          [] IsExpr(child) ->
                FlowItem(convert_expr(st, m, child), ExprsBefore(named, i) > 0, TRUE)
          [] child.kind = "Underscore" -> FlowItem(convert_underscore(child), TRUE, TRUE)
          [] OTHER -> FlowNone])

\* a classifier that reads the seen flag and never sets it
flow_classifier_mut(fn, st, m, child, seen) ==
    [seen |-> seen,
     item |->
        CASE child.kind = "Colon" -> FlowItem(Text(<<":">>), FALSE, TRUE)
          [] child.kind = "Hash" /\ fn = "convert_named" -> FlowItem(Text(<<"#">>), TRUE, FALSE)
          [] IsExpr(child) -> FlowItem(convert_expr(st, m, child), seen, TRUE)
          [] child.kind = "Underscore" /\ fn = "convert_named" ->
                FlowItem(convert_underscore(child), TRUE, TRUE)
          [] OTHER -> FlowNone]

\* one call of the closure convert_named or convert_keyed hands to
\* convert_flow_like: the item of the child, and the seen flag after the
\* call; seen.replace(true) reads the flag and sets it
flow_classifier(fn, st, m, child, seen) ==
    [seen |-> seen \/ IsExpr(child),
     item |->
        CASE child.kind = "Colon" -> FlowItem(Text(<<":">>), FALSE, TRUE)
          [] child.kind = "Hash" /\ fn = "convert_named" -> FlowItem(Text(<<"#">>), TRUE, FALSE)
          [] IsExpr(child) -> FlowItem(convert_expr(st, m, child), seen, TRUE)
          [] child.kind = "Underscore" /\ fn = "convert_named" ->
                FlowItem(convert_underscore(child), TRUE, TRUE)
          [] OTHER -> FlowNone]

\* convert_spread: the dots tight after, then the expression
convert_spread(st, m, spread) ==
    convert_flow_like([i \in DOMAIN spread.ch |->
        LET child == spread.ch[i] IN
        CASE child.kind = "Dots" -> FlowItem(Text(<<".", ".">>), TRUE, FALSE)
          [] IsExpr(child) -> FlowItem(convert_expr(st, m, child), FALSE, TRUE)
          [] OTHER -> FlowNone])

-----------------------------------------------------------------------------
(* The sources the model formats: syntax trees as the parser builds them   *)

Ident(c) == Leaf("Ident", <<c>>)
LeftParen == Leaf("LeftParen", <<"(">>)
RightParen == Leaf("RightParen", <<")">>)
Comma == Leaf("Comma", <<",">>)
Hash == Leaf("Hash", <<"#">>)
Dollar == Leaf("Dollar", <<"$">>)
Dot == Leaf("Dot", <<".">>)
SpaceNode(t) == Leaf("Space", t)
TextNode(c) == Leaf("Text", <<c>>)

\* /* c */
BlockComment == Leaf("BlockComment", <<"/", "*", " ", "c", " ", "*", "/">>)

\* // c
LineComment == Leaf("LineComment", <<"/", "/", " ", "c">>)

\* // @typstyle off
SentinelComment == Leaf("LineComment", <<"/", "/", " ">> \o Sentinel)

\* g()
ArgCall == Inner("FuncCall", <<Ident("g"), Inner("Args", <<LeftParen, RightParen>>)>>)

\* x: 1
ArgNamed ==
    Inner("Named", <<Ident("x"), Leaf("Colon", <<":">>), SpaceNode(<<SP>>), Leaf("Int", <<"1">>)>>)

\* x: g()
ArgNamedCall ==
    Inner("Named", <<Ident("x"), Leaf("Colon", <<":">>), SpaceNode(<<SP>>), ArgCall>>)

ArgAtoms == {Ident("a"), ArgCall, ArgNamed, ArgNamedCall}

\* the longest argument list of the model
MaxArgs == 2

RECURSIVE ArgLists(_)
ArgLists(n) ==
    IF n = 0 THEN {<<>>}
    ELSE LET shorter == ArgLists(n - 1)
         IN  shorter \cup {Append(l, a) : l \in {k \in shorter : Len(k) = n - 1}, a \in ArgAtoms}

\* the whitespace after the left parenthesis, after a comma, and before the
\* right parenthesis
Opens == {<<>>, <<SP>>, <<NL>>}
Seps == {<<SP>>, <<NL, SP>>}
Closes == {<<>>, <<NL>>}

OptSpace(t) == IF t = <<>> THEN <<>> ELSE <<SpaceNode(t)>>

RECURSIVE Separated(_, _)
\* the items with a comma and the whitespace sep between them
Separated(items, sep) ==
    IF Len(items) <= 1 THEN items
    ELSE <<Head(items), Comma>> \o OptSpace(sep) \o Separated(Tail(items), sep)

\* the argument list "(" open items close ")" of a call, with a block
\* comment after the left parenthesis when comment is set
MkArgs(items, open, sep, close, comment) ==
    Inner("Args",
        <<LeftParen>> \o (IF comment THEN <<BlockComment>> ELSE <<>>) \o OptSpace(open)
        \o Separated(items, sep)
        \o (IF items = <<>> THEN <<>> ELSE OptSpace(close)) \o <<RightParen>>)

\* f(...)
Call(name, args) == Inner("FuncCall", <<name, args>>)

\* the source "#" expr
HashExpr(expr) == <<Hash, expr>>

Markup(children) == Inner("Markup", children)

\* the sources "#f(...)" over every argument list and layout
CallSources ==
    {Markup(HashExpr(Call(Ident("f"), MkArgs(items, open, sep, close, comment)))) :
        items \in ArgLists(MaxArgs), open \in Opens, sep \in Seps, close \in Closes,
        comment \in BOOLEAN}

\* (a, \nb): a line of the list ends in a space
ArgsTrailingSpace ==
    Inner("Args", <<LeftParen, Ident("a"), Comma, SpaceNode(<<SP, NL>>), Ident("b"), RightParen>>)

\* ( a ): padded
ArgsPadded ==
    Inner("Args", <<LeftParen, SpaceNode(<<SP>>), Ident("a"), SpaceNode(<<SP>>), RightParen>>)

\* (a ,b;a): the row separator of math
Args2d ==
    Inner("Args", <<LeftParen,
        Inner("Array", <<TextNode("a"), SpaceNode(<<SP>>), Comma, TextNode("b")>>),
        Leaf("Semicolon", <<";">>),
        Inner("Array", <<TextNode("a")>>), RightParen>>)

\* $mat(a ,b;a)$
Equation2d ==
    Inner("Equation", <<Dollar,
        Inner("Math", <<Call(Leaf("MathIdent", <<"m", "a", "t">>), Args2d)>>), Dollar>>)

TableIdent == Leaf("Ident", <<"t", "a", "b", "l", "e">>)

\* table( a,  b )
TableCall ==
    Call(TableIdent, Inner("Args", <<LeftParen, SpaceNode(<<SP>>), Ident("a"), Comma,
        SpaceNode(<<SP, SP>>), Ident("b"), SpaceNode(<<SP>>), RightParen>>))

\* table(columns: 2, a, b)
TableColumnsCall ==
    Call(TableIdent, Inner("Args", <<LeftParen,
        Inner("Named", <<Leaf("Ident", <<"c", "o", "l", "u", "m", "n", "s">>),
                         Leaf("Colon", <<":">>), SpaceNode(<<SP>>), Leaf("Int", <<"2">>)>>),
        Comma, SpaceNode(<<SP>>), Ident("a"), Comma, SpaceNode(<<SP>>), Ident("b"),
        RightParen>>))

\* a.b.c
Chain3(first) ==
    Inner("FieldAccess", <<Inner("FieldAccess", <<first, Dot, Ident("b")>>), Dot, Ident("c")>>)

\* {a // c
\*  b}
CodeBlockComment ==
    Inner("CodeBlock", <<Leaf("LeftBrace", <<"{">>),
        Inner("Code", <<Ident("a"), SpaceNode(<<SP>>), LineComment, SpaceNode(<<NL, SP>>),
                        Ident("b")>>),
        Leaf("RightBrace", <<"}">>)>>)

\* {/* c */ a.b.c}
CodeBlockLeadingComment ==
    Inner("CodeBlock", <<Leaf("LeftBrace", <<"{">>), BlockComment, SpaceNode(<<SP>>),
        Inner("Code", <<Chain3(Ident("a"))>>),
        Leaf("RightBrace", <<"}">>)>>)

\* [#f( a )]
ContentBlockCall ==
    Inner("ContentBlock", <<Leaf("LeftBracket", <<"[">>),
        Markup(HashExpr(Call(Ident("f"), ArgsPadded))),
        Leaf("RightBracket", <<"]">>)>>)

\* set f( a )
SetRule ==
    Inner("SetRule", <<Leaf("Set", <<"s", "e", "t">>), SpaceNode(<<SP>>), Ident("f"), ArgsPadded>>)

\* *a*
Strong == Inner("Strong", <<Leaf("Star", <<"*">>), Markup(<<TextNode("a")>>), Leaf("Star", <<"*">>)>>)

\* the backtick character, as a character of its own name
BQ == "bq"

RawDelim(t) == Leaf("RawDelim", t)

\* a between two backticks
RawInline == Inner("Raw", <<RawDelim(<<BQ>>), TextNode("a"), RawDelim(<<BQ>>)>>)

\* three backticks, a on a line of its own, three backticks
RawBlock ==
    Inner("Raw", <<RawDelim(<<BQ, BQ, BQ>>), Leaf("RawTrimmed", <<NL>>), TextNode("a"),
                   Leaf("RawTrimmed", <<NL>>), RawDelim(<<BQ, BQ, BQ>>)>>)

\* $ x $
EquationBlock ==
    Inner("Equation", <<Dollar, SpaceNode(<<SP>>), Inner("Math", <<TextNode("x")>>),
                        SpaceNode(<<SP>>), Dollar>>)

\* {a}
CodeBlockOne ==
    Inner("CodeBlock", <<Leaf("LeftBrace", <<"{">>), Inner("Code", <<Ident("a")>>),
                         Leaf("RightBrace", <<"}">>)>>)

\* what a markup line can start with: prose or none
LineStarts == {<<>>, <<TextNode("a"), SpaceNode(<<SP>>)>>, <<Strong, SpaceNode(<<SP>>)>>,
               <<RawInline, SpaceNode(<<SP, SP>>)>>}

\* what ends a markup line, with the "#" before an embedded expression
LineEnds == {<<SpaceNode(<<NL>>)>>, <<SpaceNode(<<SP, NL, SP>>)>>, <<Leaf("Parbreak", <<NL, NL>>)>>,
             <<RawBlock>>, <<EquationBlock>>, <<Hash, CodeBlockOne>>}

\* a call to format, or prose with two spaces
LineRests == {HashExpr(Call(Ident("f"), ArgsPadded)),
              <<TextNode("b"), SpaceNode(<<SP, SP>>), TextNode("c")>>}

\* markup of two lines: start, a call, an end of line, then a rest
MarkupLineSources ==
    {Markup(start \o HashExpr(Call(Ident("g"), ArgsPadded)) \o end \o rest) :
        start \in LineStarts, end \in LineEnds, rest \in LineRests}
    \cup
    \* prose, a statement, and more prose: the statement ends the line
    {Markup(<<TextNode("a"), SpaceNode(<<SP>>), Hash, SetRule, SpaceNode(<<SP>>)>> \o rest) :
        rest \in LineRests}

\* the longest run of line breaks in the whitespace of a source
MaxNewlines == 4

\* n line breaks
Newlines(n) == [i \in 1..n |-> NL]

\* "{" lead a (// c) k line breaks b trail "}": two items of a code block, a
\* line comment after the first one when comment is set
CodeBlockBlank(lead, k, trail, comment) ==
    Inner("CodeBlock",
        <<Leaf("LeftBrace", <<"{">>)>> \o OptSpace(lead)
        \o <<Inner("Code", <<Ident("a")>>
                \o (IF comment THEN <<SpaceNode(<<SP>>), LineComment>> ELSE <<>>)
                \o <<SpaceNode(Newlines(k)), Ident("b")>>)>>
        \o OptSpace(trail) \o <<Leaf("RightBrace", <<"}">>)>>)

\* the sources "#{ a ... b }" over every run of line breaks between, before
\* and after the two items
CodeBlankSources ==
    {Markup(HashExpr(CodeBlockBlank(lead, k, trail, comment))) :
        lead \in {<<>>, <<NL, NL>>}, k \in 1..MaxNewlines,
        trail \in {<<>>, <<NL, NL, NL>>}, comment \in BOOLEAN}

\* the longest run of children between two statements of a code block
MaxGap == 4

\* what stands between two statements: a semicolon, whitespace, comments
GapNodes == {Leaf("Semicolon", <<";">>), SpaceNode(<<SP>>), SpaceNode(<<NL, SP>>),
             BlockComment, LineComment}

\* the runs the parser makes between two statements: the statements are
\* separated by one semicolon or by a line break, a line comment ends with
\* its line, and whitespace is one child
IsGap(g) ==
    /\ \E i \in DOMAIN g : g[i].kind = "Semicolon" \/ Contains(g[i].text, NL)
    /\ Cardinality({i \in DOMAIN g : g[i].kind = "Semicolon"}) <= 1
    /\ \A i \in DOMAIN g :
          /\ (g[i].kind = "Space" /\ i < Len(g)) => g[i + 1].kind # "Space"
          /\ g[i].kind = "LineComment" =>
                i < Len(g) /\ g[i + 1].kind = "Space" /\ Contains(g[i + 1].text, NL)

Gaps == UNION {{g \in [1..n -> GapNodes] : IsGap(g)} : n \in 1..MaxGap}

\* the sources "#{a ... b}": two statements of a code block and every run
\* of semicolon, whitespace and comments between them
CodeCommentSources ==
    {Markup(HashExpr(Inner("CodeBlock",
        <<Leaf("LeftBrace", <<"{">>), Inner("Code", <<Ident("a")>> \o g \o <<Ident("b")>>),
          Leaf("RightBrace", <<"}">>)>>))) : g \in Gaps}

\* the sources "#f( a )" k line breaks "#g( a )": two calls at markup level
MarkupBlankSources ==
    {Markup(HashExpr(Call(Ident("f"), ArgsPadded)) \o <<Leaf("Parbreak", Newlines(k))>>
            \o HashExpr(Call(Ident("g"), ArgsPadded))) : k \in 2..MaxNewlines}

\* the longest chain of field accesses of the model, in segments
MaxChain == 8

FieldNames == <<"b", "c", "d", "e", "f", "g", "h", "i", "j">>

RECURSIVE ChainOf(_)
\* a.b.c...: the chain of n segments, a field access of a field access ...
ChainOf(n) ==
    IF n = 1 THEN Ident("a")
    ELSE Inner("FieldAccess", <<ChainOf(n - 1), Dot, Ident(FieldNames[n - 1])>>)

\* the sources "#{a.b...}", "#a.b..." and "$a.b...$": a chain in a code
\* block, in markup and in an equation
ChainSources ==
    UNION {{Markup(HashExpr(Inner("CodeBlock",
                <<Leaf("LeftBrace", <<"{">>), Inner("Code", <<ChainOf(n)>>),
                  Leaf("RightBrace", <<"}">>)>>))),
            Markup(HashExpr(ChainOf(n))),
            Markup(<<Inner("Equation", <<Dollar, Inner("Math", <<ChainOf(n)>>), Dollar>>)>>)} :
           n \in 2..MaxChain}

\* the sources "#table(...)" over every argument list and layout, none with
\* a columns argument
TableSources ==
    {Markup(HashExpr(Call(TableIdent, MkArgs(items, open, sep, close, FALSE)))) :
        items \in ArgLists(MaxArgs), open \in Opens, sep \in Seps, close \in Closes}

\* [c]: a content block of one word
Block(c) ==
    Inner("ContentBlock", <<Leaf("LeftBracket", <<"[">>), Markup(<<TextNode(c)>>),
                            Leaf("RightBracket", <<"]">>)>>)

\* the trailing content blocks of a call
TrailingBlocks == {<<Block("b")>>, <<Block("b"), Block("c")>>}

\* the sources "#f(...)[b][c]" and "#f[b][c]": a call with trailing content
\* blocks, with a parenthesized list of every content or without one
BlockCallSources ==
    {Markup(HashExpr(Call(Ident("f"),
            Inner("Args", MkArgs(items, open, <<SP>>, <<>>, FALSE).ch \o blocks)))) :
        items \in ArgLists(MaxArgs), open \in {<<>>, <<SP>>}, blocks \in TrailingBlocks}
    \cup {Markup(HashExpr(Call(Ident("f"), Inner("Args", blocks)))) : blocks \in TrailingBlocks}

\* #link("http://example.com")[test]
LinkExample ==
    Markup(HashExpr(Call(Leaf("Ident", <<"l", "i", "n", "k">>),
        Inner("Args", <<LeftParen,
            Leaf("Str", <<"\"", "h", "t", "t", "p", ":", "/", "/", "e", "x", "a", "m", "p",
                          "l", "e", ".", "c", "o", "m", "\"">>),
            RightParen,
            Inner("ContentBlock", <<Leaf("LeftBracket", <<"[">>),
                Markup(<<Leaf("Text", <<"t", "e", "s", "t">>)>>),
                Leaf("RightBracket", <<"]">>)>>)>>))))

\* sources that are not one plain call
OtherSources ==
    { Markup(<<>>),
      LinkExample,
      \* "a" and two line breaks
      Markup(<<TextNode("a"), Leaf("Parbreak", <<NL, NL>>)>>),
      \* a disabled call with a line ending in a space
      Markup(<<SentinelComment, SpaceNode(<<NL>>)>> \o HashExpr(Call(Ident("f"), ArgsTrailingSpace))),
      \* a disabled call, then a call to format
      Markup(<<SentinelComment, SpaceNode(<<NL>>)>> \o HashExpr(Call(Ident("f"), ArgsPadded))
             \o <<SpaceNode(<<NL>>)>> \o HashExpr(Call(Ident("g"), ArgsPadded))),
      \* a disabled call with a comment in its list, then the same call again
      Markup(<<SentinelComment, SpaceNode(<<NL>>)>>
             \o HashExpr(Call(Ident("f"), MkArgs(<<Ident("a")>>, <<SP>>, <<SP>>, <<>>, TRUE)))
             \o <<SpaceNode(<<NL>>)>>
             \o HashExpr(Call(Ident("f"), MkArgs(<<Ident("a")>>, <<SP>>, <<SP>>, <<>>, TRUE)))),
      \* an equation with row separators, then a call to format
      Markup(<<Equation2d, SpaceNode(<<SP>>)>> \o HashExpr(Call(Ident("f"), ArgsPadded))),
      Markup(HashExpr(TableCall)),
      \* $table(a ,b;a)$: a table with row separators
      Markup(<<Inner("Equation", <<Dollar,
          Inner("Math", <<Call(Leaf("MathIdent", <<"t", "a", "b", "l", "e">>), Args2d)>>),
          Dollar>>)>>),
      Markup(HashExpr(TableColumnsCall)),
      Markup(HashExpr(CodeBlockComment)),
      Markup(HashExpr(CodeBlockLeadingComment)),
      Markup(HashExpr(Chain3(Ident("a")))),
      \* #{[#a.b.c]}: markup inside code
      Markup(HashExpr(Inner("CodeBlock",
          <<Leaf("LeftBrace", <<"{">>),
            Inner("Code", <<Inner("ContentBlock",
                <<Leaf("LeftBracket", <<"[">>), Markup(HashExpr(Chain3(Ident("a")))),
                  Leaf("RightBracket", <<"]">>)>>)>>),
            Leaf("RightBrace", <<"}">>)>>))),
      \* $#{a.b.c}$: code inside an equation
      Markup(<<Inner("Equation", <<Dollar,
          Inner("Math", HashExpr(Inner("CodeBlock",
              <<Leaf("LeftBrace", <<"{">>), Inner("Code", <<Chain3(Ident("a"))>>),
                Leaf("RightBrace", <<"}">>)>>))),
          Dollar>>)>>),
      \* #f( a )[#f( a )]
      Markup(HashExpr(Call(Ident("f"),
          Inner("Args", ArgsPadded.ch \o <<ContentBlockCall>>)))),
      \* a line of prose with a call
      Markup(<<TextNode("a"), SpaceNode(<<SP>>)>> \o HashExpr(Call(Ident("f"), ArgsPadded))),
      \* "#f(" : the parenthesis is never closed
      Markup(HashExpr(Call(Ident("f"),
          Inner("Args", <<LeftParen, Leaf("Error", <<>>)>>)))),
      Markup(<<TextNode("a"), Leaf("Error", <<"]">>)>>) }

\* the sources "$mat(a ,b;a)$ #f(...)": an equation whose call has row
\* separators, then a call over every argument list and layout
EquationSources ==
    {Markup(<<Equation2d, SpaceNode(<<SP>>)>>
            \o HashExpr(Call(Ident("f"), MkArgs(items, open, sep, close, FALSE)))) :
        items \in ArgLists(MaxArgs), open \in Opens, sep \in Seps, close \in Closes}

\* the widths the sources are formatted at
NarrowWidth == 6
WideWidth == 40

Sources ==
    {[root |-> Numbered(t, <<>>), width |-> w] :
        t \in CallSources \cup EquationSources \cup MarkupLineSources
              \cup CodeBlankSources \cup MarkupBlankSources \cup ChainSources
              \cup TableSources \cup BlockCallSources \cup CodeCommentSources
              \cup OtherSources,
        w \in {NarrowWidth, WideWidth}}

-----------------------------------------------------------------------------
(* Typstyle::format_source, statement by statement: lib.rs *)

NoResult == [tag |-> "None", text |-> <<>>]
Err == [tag |-> "SyntaxError", text |-> <<>>]
Ok(text) == [tag |-> "Ok", text |-> text]

NoStore == [built |-> FALSE, nodes |-> {}]

Init ==
    /\ source \in Sources
    /\ pc = "start"
    /\ attr_store = NoStore
    /\ doc = <<>>
    /\ rendered = <<>>
    /\ result = NoResult
    /\ mode = <<>>
    /\ frames = <<>>
    /\ content = <<>>

\* a format_source that looks at the error flag only after the attribute pass
format_source_check_late ==
    /\ pc = "start"
    /\ attr_store' = [built |-> TRUE, nodes |-> get_no_format_nodes(source.root)]
    /\ IF erroneous(source.root)
       THEN pc' = "done" /\ result' = Err
       ELSE pc' = "attr" /\ UNCHANGED result
    /\ UNCHANGED <<source, doc, rendered, mode, frames, content>>

\* if root.erroneous() { return Err(Error::SyntaxError); }
format_source_check ==
    /\ pc = "start"
    /\ IF erroneous(source.root)
       THEN pc' = "done" /\ result' = Err
       ELSE pc' = "checked" /\ UNCHANGED result
    /\ UNCHANGED <<source, attr_store, doc, rendered, mode, frames, content>>

\* let attr_store = AttrStore::new(root);
format_source_attr ==
    /\ pc = "checked"
    /\ attr_store' = [built |-> TRUE, nodes |-> get_no_format_nodes(source.root)]
    /\ pc' = "attr"
    /\ UNCHANGED <<source, doc, rendered, result, mode, frames, content>>

\* let markup = root.cast().unwrap(); let doc = printer.convert_markup(markup);
format_source_convert ==
    /\ pc = "attr"
    /\ LET d == convert_markup(attr_store.nodes, source.root)
       IN  IF source.root.kind # "Markup" \/ HasPanic(d)
           THEN pc' = "panicked" /\ UNCHANGED doc
           ELSE pc' = "converted" /\ doc' = <<d>>
    /\ UNCHANGED <<source, attr_store, rendered, result, mode, frames, content>>

\* let result = doc.pretty(self.config.max_width).to_string();
format_source_render ==
    /\ pc = "converted"
    /\ rendered' = <<Pretty(doc[1], source.width)>>
    /\ pc' = "rendered"
    /\ UNCHANGED <<source, attr_store, doc, result, mode, frames, content>>

\* let result = strip_trailing_whitespace(&result); Ok(result)
format_source_strip ==
    /\ pc = "rendered"
    /\ result' = Ok(strip_trailing_whitespace(rendered[1]))
    /\ pc' = "done"
    /\ UNCHANGED <<source, attr_store, doc, rendered, mode, frames, content>>

Next ==
    \/ format_source_check
    \/ format_source_attr
    \/ format_source_convert
    \/ format_source_render
    \/ format_source_strip

Spec == Init /\ [][Next]_vars

-----------------------------------------------------------------------------
(* strip_trailing_whitespace on every rendered text within the bounds *)

NoSource == [root |-> Numbered(Markup(<<>>), <<>>), width |-> WideWidth]

InitStrip ==
    /\ source = NoSource
    /\ pc = "rendered"
    /\ attr_store = NoStore
    /\ doc = <<>>
    /\ rendered \in {<<t>> : t \in RenderedTexts}
    /\ result = NoResult
    /\ mode = <<>>
    /\ frames = <<>>
    /\ content = <<>>

NextStrip == format_source_strip

SpecStrip == InitStrip /\ [][NextStrip]_vars


-----------------------------------------------------------------------------
(* The entry point: src/crates/typstyle-core/src/lib.rs *)

\* C1: format_source returns Err(SyntaxError) for an erroneous root before the
\* attribute store is built and before anything is converted or rendered, and
\* for a root that is not erroneous it never returns an error, never stops in
\* a failed unwrap, and what it returns at its end is Ok
C1_SyntaxErrorBeforeAnyWork ==
    /\ (erroneous(source.root) /\ pc # "start") =>
          /\ pc = "done"
          /\ result = Err
          /\ ~attr_store.built
          /\ doc = <<>>
          /\ rendered = <<>>
    /\ ~erroneous(source.root) =>
          /\ result # Err
          /\ pc # "panicked"
          /\ pc = "done" => result.tag = "Ok"
          /\ pc \in {"attr", "converted", "rendered", "done"} => attr_store.built

\* an erroneous source has been answered
C1_Witness ==
    /\ erroneous(source.root)
    /\ pc = "done"
    /\ result = Err

\* i is the last position of a line of text
EndsLine(text, i) == i = Len(text) \/ text[i + 1] = NL

\* C2: no line of the text strip_trailing_whitespace returns ends in a space
\* or a tab
C2_NoLineEndsInSpaceOrTab ==
    result.tag = "Ok" =>
        \A i \in DOMAIN result.text :
            result.text[i] \in {SP, TAB} => ~EndsLine(result.text, i)

\* a rendered text with a line ending in a tab and a line ending in a space
\* has been stripped
C2_Witness ==
    /\ pc = "done"
    /\ result.tag = "Ok"
    /\ \E i, j \in DOMAIN rendered[1] :
          /\ rendered[1][i] = TAB /\ EndsLine(rendered[1], i)
          /\ rendered[1][j] = SP /\ EndsLine(rendered[1], j)

\* C3: the text of an Ok result ends with exactly one line break: its last
\* character is a line break and the one before it, if any, is not
C3_ExactlyOneTrailingNewline ==
    (pc = "done" /\ result.tag = "Ok") =>
        LET n == Len(result.text) IN
        /\ n >= 1
        /\ result.text[n] = NL
        /\ n >= 2 => result.text[n - 1] # NL


-----------------------------------------------------------------------------
(* Format-disabled nodes: src/src/prop.rs, check_disabled, format_disabled *)

\* the nodes check_disabled is asked about: expressions (convert_expr), math
\* bodies (convert_math) and argument lists (convert_func_call)
Consulted(n) == IsExpr(n) \/ n.kind \in {"Math", "Args"}

\* C5: the source text of every node the store reports as format-disabled and
\* the converter asks about is in the output character for character, the
\* spaces and tabs at its line ends and its line breaks included
C5_VerbatimFidelity ==
    (pc = "done" /\ result.tag = "Ok") =>
        \A n \in attr_store.nodes :
            Consulted(n) => ContainsStr(result.text, into_text(n))


-----------------------------------------------------------------------------
(* Argument lists: src/src/pretty/func_call.rs *)

\* the source is one call "#f(...)" without trailing content blocks
IsSingleCall(root) ==
    /\ Len(root.ch) = 2
    /\ root.ch[1].kind = "Hash"
    /\ root.ch[2].kind = "FuncCall"
    /\ root.ch[2].ch[2].kind = "Args"
    /\ root.ch[2].ch[2].ch # <<>>
    /\ root.ch[2].ch[2].ch[Len(root.ch[2].ch[2].ch)].kind = "RightParen"

\* the argument list of the one call of the source
TheArgs == source.root.ch[2].ch[2]

\* the items of the list, read off the tree: the children that are neither
\* punctuation, whitespace nor comments
ItemsOf(args) ==
    SelectSeq(args.ch, LAMBDA c :
        c.kind \notin {"LeftParen", "RightParen", "Comma", "Space",
                       "LineComment", "BlockComment"})

\* the list is empty, or has one item that is not a call (nor a named or
\* spread one whose value is a call)
TighterCase(args) ==
    LET items == ItemsOf(args) IN
    \/ items = <<>>
    \/ /\ Len(items) = 1
       /\ items[1].kind # "FuncCall"
       /\ items[1].kind \in {"Named", "Spread"} =>
             items[1].ch[Len(items[1].ch)].kind # "FuncCall"

\* there is a line break somewhere between the parentheses
MultilineSpan(args) == Contains(into_text(args), NL)

HasComment(args) == \E i \in DOMAIN args.ch : is_comment_node(args.ch[i])

\* C6: a parenthesized argument list whose source has a line break anywhere
\* between its parentheses is laid out one item per line and never on one
\* line, whichever whitespace child holds the line break; stated for the
\* lists of two items or one call item, which the tighter style does not
\* claim first, and without a comment, which would make the list verbatim
C6_MultilineListNeverFolds ==
    (/\ pc = "done"
     /\ result.tag = "Ok"
     /\ IsSingleCall(source.root)
     /\ ~is_table(source.root.ch[2])
     /\ ~TighterCase(TheArgs)
     /\ ~HasComment(TheArgs)
     /\ MultilineSpan(TheArgs))
    => NewlineCount(result.text) >= 2


RECURSIVE HasBreak(_)
\* the document holds a breaking opportunity: a line, a soft line or a hard
\* line break
HasBreak(d) ==
    \/ d.t \in {"line", "line_", "hardline"}
    \/ \E i \in DOMAIN d.ds : HasBreak(d.ds[i])

\* the one call of the source is laid out by convert_parenthesized_args
LaidOutByArgs ==
    /\ IsSingleCall(source.root)
    /\ ~is_table(source.root.ch[2])
    /\ TheArgs \notin attr_store.nodes

\* C7: the tighter style goes first: an empty list, or a list of one item that
\* is not a call, is printed as "(" item ")" with no breaking opportunity, no
\* padding and no trailing separator, even when its source was multiline; a
\* list of one call item or of two and more items always keeps its breaking
\* opportunities
C7_TighterStyleFirst ==
    (pc \in {"converted", "rendered", "done"} /\ LaidOutByArgs) =>
        LET items == ItemsOf(TheArgs)
            inner == IF items = <<>> THEN <<>> ELSE into_text(items[1])
        IN  /\ TighterCase(TheArgs) =>
                /\ ~HasBreak(doc[1])
                /\ pc = "done" =>
                      result.text = <<"#", "f", "(">> \o inner \o <<")", NL>>
            /\ ~TighterCase(TheArgs) => HasBreak(doc[1])

\* a list of one item that is not a call, written over several lines with
\* padding, has been printed
C7_Witness ==
    /\ pc = "done"
    /\ LaidOutByArgs
    /\ Len(ItemsOf(TheArgs)) = 1
    /\ TighterCase(TheArgs)
    /\ NewlineCount(into_text(TheArgs)) = 2
    /\ NewlineCount(result.text) = 1


-----------------------------------------------------------------------------
(* Failing unwraps: lib.rs, func_call.rs, mod.rs *)

\* C8: on a tree without a syntax error no unwrap fails: the root is a markup
\* node, every child parse_args casts to an argument is one, last_arg is set
\* whenever one argument was collected, and convert_code never pops an empty
\* list of items, so the conversion never stops in a panic
C8_NoUnwrapFails ==
    /\ pc # "panicked"
    /\ (~erroneous(source.root) /\ attr_store.built) =>
          /\ source.root.kind = "Markup"
          /\ \A n \in Descendants(source.root) :
                (n.kind = "FuncCall" /\ Child(n, "Args") \notin attr_store.nodes) =>
                    LET args == Child(n, "Args")
                        between == get_parenthesized_args_untyped(args)
                    IN  /\ ~last_arg_unwrap_fails(get_parenthesized_args(args))
                        /\ (is_table(n) /\ is_formatable_table(n) = 0) =>
                              \A i \in DOMAIN between :
                                  parse_arg(between[i]).tag # "unwrap failed"

\* a table call whose list is replayed child by child, whitespace included,
\* has been converted
C8_Witness ==
    /\ pc = "converted"
    /\ \E n \in Descendants(source.root) :
          /\ n.kind = "FuncCall"
          /\ is_table(n)
          /\ is_formatable_table(n) = 0
          /\ \E i \in DOMAIN get_parenthesized_args_untyped(Child(n, "Args")) :
                get_parenthesized_args_untyped(Child(n, "Args"))[i].kind = "Space"

-----------------------------------------------------------------------------
(* A call whose argument list is format-disabled: func_call.rs, prop.rs *)

\* the source is an equation, a space and a call
IsEquationThenCall(root) ==
    /\ Len(root.ch) = 4
    /\ root.ch[1].kind = "Equation"
    /\ root.ch[2].kind = "Space"
    /\ root.ch[3].kind = "Hash"
    /\ root.ch[4].kind = "FuncCall"

\* C9: when the argument list of a call is format-disabled (a math call with a
\* row separator), the call is its callee converted as usual followed by the
\* list's source text; only the list is in the store, none of its ancestors;
\* the equation around the call and the call beside it are converted as they
\* are without the disabled list
C9_DisabledArgsStayLocal ==
    (pc \in {"attr", "converted", "rendered", "done"}
        /\ IsEquationThenCall(source.root)) =>
        LET root == source.root
            call == Child(Child(root.ch[1], "Math"), "FuncCall")
            alone == Numbered(Markup(<<root.ch[3], root.ch[4]>>), <<>>)
            alone_doc == convert_markup(get_no_format_nodes(alone), alone)
        IN  /\ attr_store.nodes =
                  {n \in Descendants(root) : n.kind = "Args" /\ is_2d_arg(n)}
            /\ Child(call, "Args") \in attr_store.nodes
            /\ pc # "attr" =>
                  /\ doc[1].ds[1].ds[1] =
                        Group(Enclose(Nest(2, Cat(<<
                            Group(Cat(<<Group(trivia(call.ch[1])),
                                        Text(into_text(Child(call, "Args")))>>))>>)),
                            <<"$">>, <<"$">>))
                  /\ SubSeq(doc[1].ds[1].ds, 3, 4) = alone_doc.ds[1].ds
            /\ pc = "done" =>
                  SubSeq(result.text, 1, Len(into_text(root.ch[1])) + 1)
                      = into_text(root.ch[1]) \o <<SP>>

\* the equation came out as written and the call beside it did not
C9_Witness ==
    /\ pc = "done"
    /\ IsEquationThenCall(source.root)
    /\ ContainsStr(result.text, into_text(source.root.ch[1]))
    /\ ~ContainsStr(result.text, into_text(source.root.ch[4]))


-----------------------------------------------------------------------------
(* The mode stack: the converters step by step. A frame is one activation  *)
(* of a converter on a node: [fn, path, i], i the step it is about to take  *)

RECURSIVE NodeAt(_, _)
\* the node numbered path
NodeAt(n, path) ==
    IF path = <<>> THEN n ELSE NodeAt(n.ch[Head(path)], Tail(path))

\* let _g = self.with_mode(m)
PushStep(m) == [op |-> "push", fn |-> "", path |-> <<>>, m |-> m]

\* _g goes out of scope
PopStep == [op |-> "pop", fn |-> "", path |-> <<>>, m |-> ""]

\* self.fn(node)
CallStep(fn, node) == [op |-> "call", fn |-> fn, path |-> node.span, m |-> ""]

\* matches!(self.current_mode(), Mode::Markup | Mode::Math), then
\* self.convert_expr(node) when it matches
ReadStep(node) == [op |-> "read", fn |-> "convert_expr", path |-> node.span, m |-> ""]

\* one call of fn on each of the nodes that pass keep
CallsOn(fn, nodes, keep(_)) ==
    LET kept == SelectSeq(nodes, keep)
    IN  [i \in DOMAIN kept |-> CallStep(fn, kept[i])]

\* Mode::current_mode: the top of the stack, Markup when it is empty
current_mode(stack) == IF stack = <<>> THEN "Markup" ELSE stack[Len(stack)]

\* a convert_equation that enters the equation in Markup mode
convert_equation_steps_mut(st, equation) ==
    <<PushStep("Markup"), CallStep("convert_math", Child(equation, "Math")), PopStep>>

\* convert_markup: Markup mode around the conversion of the expressions of
\* the lines without prose text
convert_markup_steps(st, root) ==
    LET lines == markup_lines(root.ch, 1, [has_text |-> FALSE, nodes |-> <<>>])
        line_steps(line) ==
            IF line.has_text THEN <<>>
            ELSE CallsOn("convert_expr", line.nodes,
                         LAMBDA n : IsExpr(n) /\ n.kind # "Parbreak")
    IN  <<PushStep("Markup")>>
        \o Concat([i \in DOMAIN lines |-> line_steps(lines[i])])
        \o <<PopStep>>

\* convert_expr: nothing for a disabled node or a leaf, else the converter
\* of the node's kind
convert_expr_steps(st, expr) ==
    IF check_disabled(st, expr) THEN <<>>
    ELSE CASE expr.kind \in {"Strong", "Emph"} ->
                <<CallStep("convert_markup", Child(expr, "Markup"))>>
           [] expr.kind = "Equation" -> <<CallStep("convert_equation", expr)>>
           [] expr.kind = "Math" -> <<CallStep("convert_math", expr)>>
           [] expr.kind = "CodeBlock" -> <<CallStep("convert_code_block", expr)>>
           [] expr.kind = "ContentBlock" -> <<CallStep("convert_content_block", expr)>>
           [] expr.kind = "FieldAccess" -> <<CallStep("convert_field_access", expr)>>
           [] expr.kind = "FuncCall" -> <<CallStep("convert_func_call", expr)>>
           [] OTHER -> <<>>

\* convert_equation: Math mode around the body
convert_equation_steps(st, equation) ==
    <<PushStep("Math"), CallStep("convert_math", Child(equation, "Math")), PopStep>>

\* convert_math: returns at once for a disabled body
convert_math_steps(st, math) ==
    IF check_disabled(st, math) THEN <<>>
    ELSE CallsOn("convert_expr", math.ch, IsExpr)

\* convert_code_block: Code mode around the statements
convert_code_block_steps(st, code_block) ==
    LET code_nodes ==
            Concat([i \in DOMAIN code_block.ch |->
                IF code_block.ch[i].kind = "Code" THEN code_block.ch[i].ch ELSE <<>>])
    IN  <<PushStep("Code")>> \o CallsOn("convert_expr", code_nodes, IsExpr) \o <<PopStep>>

convert_content_block_steps(st, content_block) ==
    <<CallStep("convert_markup", Child(content_block, "Markup"))>>

RECURSIVE InnermostTarget(_, _)
\* the target resolve_dot_chain converts: the start of the chain
InnermostTarget(st, field_access) ==
    LET target == field_access.ch[1]
    IN  IF target.kind = "FieldAccess" /\ ~check_disabled(st, target)
        THEN InnermostTarget(st, target)
        ELSE target

\* convert_field_access: returns at once for an unformattable node; else
\* resolves the chain, reads the mode and, in Markup and Math, converts the
\* target
convert_field_access_steps(st, field_access) ==
    IF is_node_unformattable(field_access) THEN <<>>
    ELSE <<CallStep("convert_expr", InnermostTarget(st, field_access)),
           ReadStep(field_access.ch[1])>>

\* convert_func_call: the callee, then, unless the list is disabled, every
\* argument
convert_func_call_steps(st, func_call) ==
    <<CallStep("convert_expr", func_call.ch[1])>>
    \o (IF check_disabled(st, Child(func_call, "Args")) THEN <<>>
        ELSE CallsOn("convert_arg", Child(func_call, "Args").ch, IsArg))

\* convert_arg, convert_named, convert_spread: the expressions of the argument
convert_arg_steps(st, arg) ==
    IF arg.kind \in {"Named", "Spread"}
    THEN CallsOn("convert_expr", arg.ch, IsExpr)
    ELSE <<CallStep("convert_expr", arg)>>

\* the steps of an activation
Steps(st, fn, node) ==
    CASE fn = "convert_markup" -> convert_markup_steps(st, node)
      [] fn = "convert_expr" -> convert_expr_steps(st, node)
      [] fn = "convert_equation" -> convert_equation_steps(st, node)
      [] fn = "convert_math" -> convert_math_steps(st, node)
      [] fn = "convert_code_block" -> convert_code_block_steps(st, node)
      [] fn = "convert_content_block" -> convert_content_block_steps(st, node)
      [] fn = "convert_field_access" -> convert_field_access_steps(st, node)
      [] fn = "convert_func_call" -> convert_func_call_steps(st, node)
      [] fn = "convert_arg" -> convert_arg_steps(st, node)

Frame(fn, path) == [fn |-> fn, path |-> path, i |-> 1]

FrameSteps(f) == Steps(attr_store.nodes, f.fn, NodeAt(source.root, f.path))

Top == frames[Len(frames)]

\* the step the running activation is about to take, if it has one left
AtStep(op) ==
    /\ pc = "converting"
    /\ frames # <<>>
    /\ Top.i <= Len(FrameSteps(Top))
    /\ FrameSteps(Top)[Top.i].op = op

TheStep == FrameSteps(Top)[Top.i]

Advanced == [frames EXCEPT ![Len(frames)].i = @ + 1]


\* with_mode: the mode is pushed
with_mode ==
    /\ AtStep("push")
    /\ mode' = Append(mode, TheStep.m)
    /\ frames' = Advanced
    /\ UNCHANGED <<source, pc, attr_store, doc, rendered, result, content>>

\* the guard is dropped as its converter returns: the mode is popped
drop_guard ==
    /\ AtStep("pop")
    /\ mode' = SubSeq(mode, 1, Len(mode) - 1)
    /\ frames' = Advanced
    /\ UNCHANGED <<source, pc, attr_store, doc, rendered, result, content>>

\* a converter calls another one
call ==
    /\ AtStep("call")
    /\ frames' = Append(Advanced, Frame(TheStep.fn, TheStep.path))
    /\ UNCHANGED <<source, pc, attr_store, doc, rendered, result, mode, content>>

\* convert_field_access reads the mode: in Markup and Math it converts its
\* target, in Code it lays out the chain it resolved
read_mode ==
    /\ AtStep("read")
    /\ frames' = IF current_mode(mode) \in {"Markup", "Math"}
                 THEN Append(Advanced, Frame(TheStep.fn, TheStep.path))
                 ELSE Advanced
    /\ UNCHANGED <<source, pc, attr_store, doc, rendered, result, mode, content>>

\* a converter returns; the conversion ends with the return of the first one
return ==
    /\ pc = "converting"
    /\ frames # <<>>
    /\ Top.i > Len(FrameSteps(Top))
    /\ frames' = SubSeq(frames, 1, Len(frames) - 1)
    /\ pc' = IF Len(frames) = 1 THEN "converted" ELSE pc
    /\ UNCHANGED <<source, attr_store, doc, rendered, result, mode, content>>

\* the nesting of bodies in the sources of the mode stack
MaxNest == 2

LeftBrace == Leaf("LeftBrace", <<"{">>)
RightBrace == Leaf("RightBrace", <<"}">>)
LeftBracket == Leaf("LeftBracket", <<"[">>)
RightBracket == Leaf("RightBracket", <<"]">>)

\* the children of a markup body holding the expression
MarkupItems(e) == IF e.kind = "Equation" THEN <<e>> ELSE HashExpr(e)

\* {e}
InCode(e) == Inner("CodeBlock", <<LeftBrace, Inner("Code", <<e>>), RightBrace>>)

\* [#e]
InContent(e) ==
    Inner("ContentBlock", <<LeftBracket, Markup(MarkupItems(e)), RightBracket>>)

\* $#e$
InEquation(e) == Inner("Equation", <<Dollar, Inner("Math", HashExpr(e)), Dollar>>)

\* f(e)
InCall(e) == Call(Ident("f"), Inner("Args", <<LeftParen, e, RightParen>>))

\* f(a.b).c
ChainOnCall ==
    Inner("FieldAccess",
        <<InCall(Inner("FieldAccess", <<Ident("a"), Dot, Ident("b")>>)), Dot, Ident("c")>>)

\* a/* c */.b: a field access that holds a comment
ChainComment == Inner("FieldAccess", <<Ident("a"), BlockComment, Dot, Ident("b")>>)

\* mat(a.b.c ;a): a call in math whose list has a row separator
Call2d ==
    Call(Leaf("MathIdent", <<"m", "a", "t">>),
        Inner("Args", <<LeftParen,
            Inner("Array", <<Chain3(Ident("a")), SpaceNode(<<SP>>)>>),
            Leaf("Semicolon", <<";">>),
            Inner("Array", <<TextNode("a")>>), RightParen>>))

RECURSIVE Nested(_)
\* the expressions under at most n bodies and calls
Nested(n) ==
    IF n = 0 THEN {Chain3(Ident("a")), ChainOnCall, ChainComment, Call2d}
    ELSE LET inner == Nested(n - 1)
         IN  inner
             \cup {InCode(e) : e \in inner}
             \cup {InContent(e) : e \in inner}
             \cup {InEquation(e) : e \in {x \in inner : x.kind # "Equation"}}
             \cup {InCall(e) : e \in inner}

ModeSources ==
    {[root |-> Numbered(Markup(MarkupItems(e)), <<>>), width |-> WideWidth] :
        e \in Nested(MaxNest)}

\* the conversion is about to start: format_source has built the store and
\* calls convert_markup on the root
InitMode ==
    /\ source \in ModeSources
    /\ pc = "converting"
    /\ attr_store = [built |-> TRUE, nodes |-> get_no_format_nodes(source.root)]
    /\ doc = <<>>
    /\ rendered = <<>>
    /\ result = NoResult
    /\ mode = <<>>
    /\ frames = <<Frame("convert_markup", <<>>)>>
    /\ content = <<>>

NextMode ==
    \/ with_mode
    \/ drop_guard
    \/ call
    \/ read_mode
    \/ return

SpecMode == InitMode /\ [][NextMode]_vars

\* the converters that push a mode, and the mode each pushes
Pushing == {"convert_markup", "convert_equation", "convert_code_block"}

\* the frames that have pushed their mode and not yet popped it
Holding ==
    SelectSeq(frames, LAMBDA f :
        f.fn \in Pushing /\ f.i >= 2 /\ f.i <= Len(FrameSteps(f)))

\* the mode of a body, by the kind of its node
BodyMode(n) ==
    CASE n.kind = "Markup" -> "Markup"
      [] n.kind = "Equation" -> "Math"
      [] n.kind = "CodeBlock" -> "Code"

\* the mode of the innermost markup body, equation or code block around the
\* node numbered path, read off the tree
EnclosingMode(path) ==
    LET around == {k \in 0..(Len(path) - 1) :
                      NodeAt(source.root, SubSeq(path, 1, k)).kind
                          \in {"Markup", "Equation", "CodeBlock"}}
        k == CHOOSE x \in around : \A y \in around : y <= x
    IN  BodyMode(NodeAt(source.root, SubSeq(path, 1, k)))

\* C10: the mode stack holds exactly the modes of the bodies being converted,
\* outermost first: every push of convert_markup, convert_equation and
\* convert_code_block is undone by one pop when that converter returns, so
\* the stack is empty again when the first convert_markup has returned; and
\* where convert_field_access reads the mode the stack is not empty and its
\* top is the mode of the innermost body, equation or code block around the
\* field access
C10_ModeStackDiscipline ==
    /\ Len(mode) = Len(Holding)
    /\ \A k \in DOMAIN mode :
          mode[k] = BodyMode(NodeAt(source.root, Holding[k].path))
    /\ (pc = "converted" /\ frames = <<>>) => mode = <<>>
    /\ AtStep("read") =>
          /\ Top.fn = "convert_field_access"
          /\ mode # <<>>
          /\ mode[Len(mode)] = EnclosingMode(Top.path)

\* convert_field_access reads the mode two bodies deep, in Code mode
C10_Witness ==
    /\ AtStep("read")
    /\ Len(mode) >= 3
    /\ mode[Len(mode)] = "Code"
    /\ mode[Len(mode) - 1] = "Math"


-----------------------------------------------------------------------------
(* Source::detached(content): the tree typst_syntax makes of a text, for   *)
(* texts of prose, whitespace, comments and calls "#f(...)"                *)

Letters == {"a", "b", "c", "f", "g", "x"}
Digits == {"1", "2", "3"}

\* where the run of characters of the class that starts at i ends
RunEnd(s, i, class) ==
    LET stop == {j \in i..Len(s) : s[j] \notin class}
    IN  IF stop = {} THEN Len(s) + 1
        ELSE CHOOSE j \in stop : \A k \in stop : j <= k

At(s, i) == IF i \in DOMAIN s THEN s[i] ELSE ""

\* the line breaks of a run of whitespace: "\n", "\r" and "\r\n" are one each
count_newlines(ws) ==
    Cardinality({k \in DOMAIN ws :
        \/ ws[k] = NL
        \/ ws[k] = CR /\ At(ws, k + 1) # NL})

\* a run of whitespace: in markup two line breaks make it a paragraph break
whitespace(ws, in_markup) ==
    IF in_markup /\ count_newlines(ws) >= 2 THEN Leaf("Parbreak", ws)
    ELSE Leaf("Space", ws)

\* where the block comment that starts at i ends: after its "*/", or at the
\* end of the text
BlockCommentEnd(s, i) ==
    LET close == {j \in (i + 2)..(Len(s) - 1) : s[j] = "*" /\ s[j + 1] = "/"}
    IN  IF close = {} THEN Len(s) + 1
        ELSE (CHOOSE j \in close : \A k \in close : j <= k) + 2

RECURSIVE code_expr(_, _)
RECURSIVE with_args(_, _, _)
RECURSIVE args_items(_, _)

\* an expression of code with the argument lists that follow it
code_expr(s, i) ==
    IF At(s, i) \in Letters
    THEN LET j == RunEnd(s, i, Letters)
         IN  with_args(s, Leaf("Ident", SubSeq(s, i, j - 1)), j)
    ELSE IF At(s, i) \in Digits
    THEN LET j == RunEnd(s, i, Digits)
         IN  [node |-> Leaf("Int", SubSeq(s, i, j - 1)), next |-> j]
    ELSE IF i \in DOMAIN s
    THEN [node |-> Leaf("Error", <<s[i]>>), next |-> i + 1]
    ELSE [node |-> Leaf("Error", <<>>), next |-> i]

\* callee "(" ... ")", as often as a parenthesis follows
with_args(s, callee, i) ==
    IF At(s, i) = "("
    THEN LET items == args_items(s, i + 1)
         IN  with_args(s, Inner("FuncCall",
                 <<callee, Inner("Args", <<LeftParen>> \o items.nodes)>>), items.next)
    ELSE [node |-> callee, next |-> i]

\* the children of an argument list after its left parenthesis
args_items(s, i) ==
    IF i > Len(s) THEN [nodes |-> <<Leaf("Error", <<>>)>>, next |-> i]
    ELSE IF s[i] = ")" THEN [nodes |-> <<RightParen>>, next |-> i + 1]
    ELSE IF s[i] \in WhiteSpace
    THEN LET j == RunEnd(s, i, WhiteSpace)
             rest == args_items(s, j)
         IN  [rest EXCEPT !.nodes = <<whitespace(SubSeq(s, i, j - 1), FALSE)>> \o @]
    ELSE IF s[i] = ","
    THEN LET rest == args_items(s, i + 1)
         IN  [rest EXCEPT !.nodes = <<Comma>> \o @]
    ELSE IF s[i] = "/" /\ At(s, i + 1) = "*"
    THEN LET j == BlockCommentEnd(s, i)
             rest == args_items(s, j)
         IN  [rest EXCEPT !.nodes = <<Leaf("BlockComment", SubSeq(s, i, j - 1))>> \o @]
    ELSE LET e == code_expr(s, i)
             named == e.node.kind = "Ident" /\ At(s, e.next) = ":"
             j == RunEnd(s, e.next + 1, WhiteSpace)
             value == code_expr(s, j)
             arg == IF named
                    THEN Inner("Named",
                            <<e.node, Leaf("Colon", <<":">>)>>
                            \o (IF j > e.next + 1
                                THEN <<whitespace(SubSeq(s, e.next + 1, j - 1), FALSE)>>
                                ELSE <<>>)
                            \o <<value.node>>)
                    ELSE e.node
             rest == args_items(s, IF named THEN value.next ELSE e.next)
         IN  [rest EXCEPT !.nodes = <<arg>> \o @]

\* the characters that end a run of prose text
TextStop == WhiteSpace \cup {"#", "/", "$", "*", "_", "[", "]"}

RECURSIVE markup_nodes(_, _)
\* the children of a markup body from position i on
markup_nodes(s, i) ==
    IF i > Len(s) THEN <<>>
    ELSE IF s[i] \in WhiteSpace
    THEN LET j == RunEnd(s, i, WhiteSpace)
         IN  <<whitespace(SubSeq(s, i, j - 1), TRUE)>> \o markup_nodes(s, j)
    ELSE IF s[i] = "#" /\ At(s, i + 1) \in Letters
    THEN LET e == code_expr(s, i + 1)
         IN  <<Hash, e.node>> \o markup_nodes(s, e.next)
    ELSE IF s[i] = "/" /\ At(s, i + 1) = "/"
    THEN LET j == RunEnd(s, i, {c \in {s[k] : k \in DOMAIN s} : c \notin {NL, CR}})
         IN  <<Leaf("LineComment", SubSeq(s, i, j - 1))>> \o markup_nodes(s, j)
    ELSE IF s[i] = "/" /\ At(s, i + 1) = "*"
    THEN LET j == BlockCommentEnd(s, i)
         IN  <<Leaf("BlockComment", SubSeq(s, i, j - 1))>> \o markup_nodes(s, j)
    ELSE IF s[i] \in TextStop
    THEN <<Leaf("Error", <<s[i]>>)>> \o markup_nodes(s, i + 1)
    ELSE LET j == RunEnd(s, i, {c \in {s[k] : k \in DOMAIN s} : c \notin TextStop})
         IN  <<Leaf("Text", SubSeq(s, i, j - 1))>> \o markup_nodes(s, j)

\* typst_syntax::parse
parse(text) == Inner("Markup", markup_nodes(text, 1))


-----------------------------------------------------------------------------
(* format_content on a text, and again on what it returned *)

\* the texts formatted twice: prose and whitespace, and the calls "#f(...)"
AgainTexts ==
    RenderedTexts \cup {into_text(t) : t \in CallSources}

InitAgain ==
    /\ content \in {<<t>> : t \in AgainTexts}
    /\ source \in {[root |-> Numbered(parse(content[1]), <<>>), width |-> w] :
                      w \in {NarrowWidth, WideWidth}}
    /\ pc = "start"
    /\ attr_store = NoStore
    /\ doc = <<>>
    /\ rendered = <<>>
    /\ result = NoResult
    /\ mode = <<>>
    /\ frames = <<>>

\* format_content(result): the text format_source returned is parsed and
\* formatted again, at the same width
format_content_again ==
    /\ pc = "done"
    /\ result.tag = "Ok"
    /\ Len(content) = 1
    /\ content' = Append(content, result.text)
    /\ source' = [root |-> Numbered(parse(result.text), <<>>), width |-> source.width]
    /\ pc' = "start"
    /\ attr_store' = NoStore
    /\ doc' = <<>>
    /\ rendered' = <<>>
    /\ result' = NoResult
    /\ UNCHANGED <<mode, frames>>

NextAgain ==
    \/ format_source_check
    \/ format_source_attr
    \/ format_source_convert
    \/ format_source_render
    \/ format_source_strip
    \/ format_content_again

SpecAgain == InitAgain /\ [][NextAgain]_vars

\* C4: formatting what format_source returned for a text without syntax
\* error, at the same width, returns it unchanged
C4_Idempotence ==
    (pc = "done" /\ Len(content) = 2) => result = Ok(content[2])

\* a call written on one line has been broken over lines by the first pass
\* and formatted again
C4_Witness ==
    /\ pc = "done"
    /\ Len(content) = 2
    /\ result.tag = "Ok"
    /\ content[1] # <<>>
    /\ content[1][1] = "#"
    /\ NewlineCount(content[1]) = 0
    /\ NewlineCount(content[2]) >= 3

\* the trees of the sources are the trees parse makes of their texts
ParseAgrees ==
    Numbered(parse(into_text(source.root)), <<>>) = source.root

-----------------------------------------------------------------------------
(* The attribute pass on the numbered tree: src/src/prop.rs *)

\* the parent of a node of the source and the node's place among its
\* children: the span of a numbered node is its path from the root
ParentOf(n) == NodeAt(source.root, SubSeq(n.span, 1, Len(n.span) - 1))

IndexOf(n) == n.span[Len(n.span)]

\* a comment holding the marker
IsSentinel(n) == is_comment_node(n) /\ ContainsStr(n.text, Sentinel)

HasCommentChild(n) == \E i \in DOMAIN n.ch : is_comment_node(n.ch[i])

Is2dArgs(n) == n.kind = "Args" /\ is_2d_arg(n)

\* a child the loop either marks for a raised flag or descends into
TakesFlag(n) == n.ch # <<>> /\ ~Is2dArgs(n)

\* the flag is raised when the loop over P's children reaches child k: a
\* sentinel comment precedes and no child in between has taken the flag
Flagged(P, k) ==
    \E i \in 1..(k - 1) :
        /\ IsSentinel(P.ch[i])
        /\ \A j \in (i + 1)..(k - 1) : ~TakesFlag(P.ch[j])

RECURSIVE Walked(_)
\* the pass runs its loop over the children of n
Walked(n) ==
    \/ n.span = <<>>
    \/ /\ TakesFlag(n)
       /\ ~Flagged(ParentOf(n), IndexOf(n))
       /\ Walked(ParentOf(n))

\* the children after child i of P that can take the flag
LaterTakers(P, i) == {k \in (i + 1)..Len(P.ch) : TakesFlag(P.ch[k])}

\* the least member of a non-empty set of numbers
Least(S) == CHOOSE k \in S : \A l \in S : k <= l

RECURSIVE Paths(_)
Paths(n) ==
    {<<>>} \cup UNION {{<<i>> \o q : q \in Paths(n.ch[i])} : i \in DOMAIN n.ch}

\* the path of the parent
Up(p) == SubSeq(p, 1, Len(p) - 1)

RECURSIVE WalkedAt(_)
\* the pass runs its loop over the children of the node at path p: it is the
\* root, or a child with children, without row separator and met with the
\* flag down, of a node whose loop runs
WalkedAt(p) ==
    \/ p = <<>>
    \/ /\ TakesFlag(NodeAt(source.root, p))
       /\ ~Flagged(NodeAt(source.root, Up(p)), p[Len(p)])
       /\ WalkedAt(Up(p))

\* what the pass inserts for the node at path p, seen as that node alone
MarkedAt(p) ==
    LET n == NodeAt(source.root, p) IN
    IF p = <<>> THEN HasCommentChild(n)
    ELSE /\ WalkedAt(Up(p))
         /\ \/ IsSentinel(n)
            \/ Is2dArgs(n)
            \/ /\ TakesFlag(n)
               /\ \/ Flagged(NodeAt(source.root, Up(p)), p[Len(p)])
                  \/ HasCommentChild(n)

\* two nodes of equal kind, text and children at different places
Twins(p, q) ==
    /\ p # q
    /\ into_text(NodeAt(source.root, p)) = into_text(NodeAt(source.root, q))
    /\ NodeAt(source.root, p).kind = NodeAt(source.root, q).kind
    /\ Len(NodeAt(source.root, p).ch) = Len(NodeAt(source.root, q).ch)

\* C12: the store reports a node exactly when the pass marked the node at
\* that place of the tree: a node equal in kind, text and children to a
\* marked one at another place is not reported for it, and its subtree is
\* still visited
C12_KeyedByNodeIdentity ==
    attr_store.built =>
        \A p \in Paths(source.root) :
            NodeAt(source.root, p) \in attr_store.nodes <=> MarkedAt(p)

\* of two equal calls the first is disabled by a sentinel comment and the
\* second is not reported; the list of the second, which holds a comment,
\* was visited and marked
C12_Witness ==
    /\ attr_store.built
    /\ \E p, q \in Paths(source.root) :
          /\ Twins(p, q)
          /\ NodeAt(source.root, p).kind = "FuncCall"
          /\ NodeAt(source.root, p) \in attr_store.nodes
          /\ NodeAt(source.root, q) \notin attr_store.nodes
          /\ Child(NodeAt(source.root, q), "Args") \in attr_store.nodes
          /\ Child(NodeAt(source.root, p), "Args") \notin attr_store.nodes

-----------------------------------------------------------------------------
(* The markup line policy: src/src/pretty/mod.rs, convert_markup *)

\* the lines convert_markup cuts the root of the source into
RootLines == markup_lines(source.root.ch, 1, [has_text |-> FALSE, nodes |-> <<>>])

\* a child that ends its line: a statement, a paragraph break or whitespace
\* with a line break, a block raw region, a code block, a block equation
EndsMarkupLine(node) ==
    \/ node.kind \in {"Space", "Parbreak"} /\ Contains(node.text, NL)
    \/ is_stmt(node)
    \/ node.kind = "Raw" /\ raw_block(node)
    \/ node.kind = "CodeBlock"
    \/ node.kind = "Equation" /\ equation_block(node)

\* prose text: text, strong, emphasis, inline raw
IsProse(node) ==
    \/ node.kind \in {"Text", "Strong", "Emph"}
    \/ node.kind = "Raw" /\ ~raw_block(node)

\* the lines are a partition of the children in source order, each one ended
\* by a line-ending child or by the end of the markup, a line-ending child
\* nowhere but at the end of a line
LinesPartitionChildren ==
    /\ Concat([i \in DOMAIN RootLines |-> RootLines[i].nodes]) = source.root.ch
    /\ \A i \in DOMAIN RootLines :
          LET nodes == RootLines[i].nodes IN
          /\ nodes # <<>>
          /\ \A j \in 1..(Len(nodes) - 1) : ~EndsMarkupLine(nodes[j])
          /\ i < Len(RootLines) => EndsMarkupLine(nodes[Len(nodes)])
          /\ RootLines[i].has_text <=> \E j \in DOMAIN nodes : IsProse(nodes[j])

\* the document of child j of line i in the document of the markup
NodeDoc(i, j) == doc[1].ds[i].ds[j]

\* C13: the children are cut into lines in source order, none dropped, and
\* every child of a line with prose text, whitespace included, is printed as
\* it is written in the source
C13_ProseLineVerbatim ==
    doc # <<>> =>
        /\ LinesPartitionChildren
        /\ \A i \in DOMAIN RootLines : RootLines[i].has_text =>
              \A j \in DOMAIN RootLines[i].nodes :
                  Pretty(NodeDoc(i, j), source.width) = into_text(RootLines[i].nodes[j])

\* what does hold of the lines: the children are cut, in source order and
\* without dropping any, into lines ended by a statement, a paragraph break or whitespace with
\* a line break, a block raw region, a code block or a block equation; in
\* every line a whitespace child is printed as one space, or as one line
\* break when it holds one, and a paragraph break as its line breaks; every
\* other child of a line with prose text is printed as written, and every
\* expression of a line without prose text in its converted form
MarkupLinePolicy ==
    doc # <<>> =>
        /\ LinesPartitionChildren
        /\ Len(doc[1].ds) = Len(RootLines)
        /\ \A i \in DOMAIN RootLines :
              /\ Len(doc[1].ds[i].ds) = Len(RootLines[i].nodes)
              /\ \A j \in DOMAIN RootLines[i].nodes :
                    LET node == RootLines[i].nodes[j] IN
                    IF node.kind = "Space"
                    THEN NodeDoc(i, j) = IF Contains(node.text, NL) THEN Hardline ELSE Space
                    ELSE IF node.kind = "Parbreak"
                    THEN Pretty(NodeDoc(i, j), source.width)
                            = [k \in 1..NewlineCount(node.text) |-> NL]
                    ELSE IF RootLines[i].has_text
                    THEN NodeDoc(i, j) = Text(into_text(node))
                    ELSE IsExpr(node) =>
                            NodeDoc(i, j) = convert_expr(attr_store.nodes, "Markup", node)

\* a line of prose with two spaces between its words came out with one,
\* after a line where a call was formatted
MarkupLinePolicyReached ==
    /\ pc = "done"
    /\ result.tag = "Ok"
    /\ Len(RootLines) = 2
    /\ ~RootLines[1].has_text
    /\ RootLines[2].has_text
    /\ \E j \in DOMAIN RootLines[1].nodes :
          /\ RootLines[1].nodes[j].kind = "FuncCall"
          /\ ~ContainsStr(result.text, into_text(RootLines[1].nodes[j]))
    /\ \E j \in DOMAIN RootLines[2].nodes :
          /\ RootLines[2].nodes[j].kind = "Space"
          /\ Len(RootLines[2].nodes[j].text) = 2
          /\ ~ContainsStr(result.text, <<"b", SP, SP, "c">>)
          /\ ContainsStr(result.text, <<"b", SP, "c">>)

-----------------------------------------------------------------------------
(* Blank lines: src/src/pretty/mod.rs, convert_code and convert_parbreak *)

\* the lines of a text that ends with a line break
OutputLines(text) == Lines(text)

\* lines i..j of the output are all blank
BlankRun(ls, i, j) == i <= j /\ \A l \in i..j : ls[l] = <<>>

\* the length of the longest run of blank lines, 0 when there is none
LongestBlankRun(ls) ==
    LET runs == {n \in 1..Len(ls) :
                    \E i \in 1..(Len(ls) - n + 1) : BlankRun(ls, i, i + n - 1)}
    IN  IF runs = {} THEN 0 ELSE CHOOSE r \in runs : \A q \in runs : q <= r

\* the source is "#{ a ... b }", line breaks before the b
IsCodeBlank(root) ==
    /\ Len(root.ch) = 2
    /\ root.ch[2].kind = "CodeBlock"
    /\ \E i \in DOMAIN root.ch[2].ch :
          /\ root.ch[2].ch[i].kind = "Code"
          /\ Len(root.ch[2].ch[i].ch) >= 3
          /\ root.ch[2].ch[i].ch[Len(root.ch[2].ch[i].ch)].text = <<"b">>
          /\ root.ch[2].ch[i].ch[Len(root.ch[2].ch[i].ch) - 1].kind = "Space"
          /\ Contains(root.ch[2].ch[i].ch[Len(root.ch[2].ch[i].ch) - 1].text, NL)

\* the line breaks between the two items of "#{ a ... b }"
CodeGap(root) ==
    LET code == Child(root.ch[2], "Code")
    IN  NewlineCount(code.ch[Len(code.ch) - 1].text)

\* the source is two calls with a paragraph break between them
IsMarkupBlank(root) ==
    /\ Len(root.ch) = 5
    /\ root.ch[3].kind = "Parbreak"

Min(a, b) == IF a < b THEN a ELSE b

\* C14 (as claimed): the output never has more than blank_lines_upper_bound
\* blank lines in a row, between the items of a code block or at markup level
C14_BlankLinesBounded ==
    (pc = "done" /\ result.tag = "Ok" /\ (IsCodeBlank(source.root) \/ IsMarkupBlank(source.root))) =>
        LongestBlankRun(OutputLines(result.text)) <= BlankLinesUpperBound

\* C14 (amended): between two items of a code block separated by n line
\* breaks the output has min(n - 1, blank_lines_upper_bound) blank lines,
\* and none after the opening or before the closing brace; at markup level a
\* paragraph break of n line breaks leaves n - 1 blank lines, bound or not
C14_BlankLinesCollapsedInCode ==
    (pc = "done" /\ result.tag = "Ok") =>
        LET ls == OutputLines(result.text) IN
        /\ IsCodeBlank(source.root) =>
              /\ LongestBlankRun(ls) = Min(CodeGap(source.root) - 1, BlankLinesUpperBound)
              /\ Len(ls) >= 4
              /\ ls[1] = <<"#", "{">>
              /\ ls[2] # <<>>
              /\ ls[Len(ls) - 1] # <<>>
              /\ ls[Len(ls)] = <<"}">>
        /\ IsMarkupBlank(source.root) =>
              LongestBlankRun(ls) = NewlineCount(source.root.ch[3].text) - 1

\* a code block whose two items were four line breaks apart, the first with
\* a comment on its line, came out with the comment kept on that line and two
\* blank lines, none of the blank lines before and after the items kept
C14_Witness ==
    /\ pc = "done"
    /\ result.tag = "Ok"
    /\ IsCodeBlank(source.root)
    /\ CodeGap(source.root) = 4
    /\ HasCommentChild(Child(source.root.ch[2], "Code"))
    /\ source.root.ch[2].ch[2].kind = "Space"
    /\ source.root.ch[2].ch[Len(source.root.ch[2].ch) - 1].kind = "Space"
    /\ OutputLines(result.text)[2] = <<SP, SP, "a", SP>> \o LineComment.text
    /\ LongestBlankRun(OutputLines(result.text)) = 2

-----------------------------------------------------------------------------
(* Chains of field accesses: src/src/pretty/mod.rs, convert_field_access *)

RECURSIVE SegmentsOf(_)
\* the segments of a chain as they stand in the source, first one first
SegmentsOf(n) ==
    IF n.kind = "FieldAccess"
    THEN Append(SegmentsOf(n.ch[1]), into_text(n.ch[Len(n.ch)]))
    ELSE <<into_text(n)>>

\* the segments joined with "." on one line
FlatChain(segs) == Join(segs, <<".">>)

\* the first segment, then every further one on a line of its own, indented
\* two columns and led by "."
BrokenChain(segs) ==
    segs[1] \o Concat([i \in 1..(Len(segs) - 1) |-> <<NL, SP, SP, ".">> \o segs[i + 1]])

\* the source is "#{" chain "}"
IsChainInCode(root) ==
    /\ Len(root.ch) = 2
    /\ root.ch[2].kind = "CodeBlock"
    /\ Len(root.ch[2].ch) = 3
    /\ root.ch[2].ch[2].kind = "Code"
    /\ Len(root.ch[2].ch[2].ch) = 1
    /\ root.ch[2].ch[2].ch[1].kind = "FieldAccess"

TheChainInCode == source.root.ch[2].ch[2].ch[1]

\* C15: in Code mode a chain of two segments is printed first "." last at
\* every width; a chain of three or more is printed on one line, its
\* segments joined with ".", when that fits the width, and else with every
\* segment after the first on a line of its own, led by "." and indented two
\* columns; the segments keep their source order
C15_DotChainLayout ==
    (attr_store.built /\ IsChainInCode(source.root)) =>
        LET segs == SegmentsOf(TheChainInCode)
            d == convert_expr(attr_store.nodes, "Code", TheChainInCode)
        IN  \A w \in 1..WideWidth :
                Pretty(d, w) = IF Len(segs) = 2 \/ Len(FlatChain(segs)) <= w
                               THEN FlatChain(segs)
                               ELSE BrokenChain(segs)

\* the chain a.b.c.d.e.f.g.h in a code block came out broken at the narrow
\* width, the first segment on the line of the block's indent
C15_Witness ==
    /\ pc = "done"
    /\ result.tag = "Ok"
    /\ IsChainInCode(source.root)
    /\ Len(SegmentsOf(TheChainInCode)) = 8
    /\ source.width = NarrowWidth
    /\ ContainsStr(result.text, <<NL, SP, SP, "a", NL, SP, SP, SP, SP, ".", "b", NL>>)
    /\ ContainsStr(result.text, <<NL, SP, SP, SP, SP, ".", "h", NL, "}">>)

\* the field accesses of the source that are not the target of another one
\* and hold no comment
OuterChains ==
    {n \in Descendants(source.root) :
        /\ n.kind = "FieldAccess"
        /\ ParentOf(n).kind # "FieldAccess"
        /\ ~is_node_unformattable(n)}

\* C16: a field access converted with Markup or Math on top of the mode
\* stack is printed target "." field with no breaking opportunity, on one
\* line at every width and however long the chain; a breaking opportunity
\* appears only with Code on top, and then only from three segments on
C16_NoFlatteningInMarkupOrMath ==
    attr_store.built =>
        \A n \in OuterChains :
            LET m == EnclosingMode(n.span)
                d == convert_expr(attr_store.nodes, m, n)
            IN  /\ HasBreak(d) <=> (m = "Code" /\ Len(SegmentsOf(n)) >= 3)
                /\ m \in {"Markup", "Math"} =>
                      /\ d = Group(Cat(<<convert_expr(attr_store.nodes, m, n.ch[1]),
                                         Text(<<".">>), Text(n.ch[Len(n.ch)].text)>>))
                      /\ \A w \in 1..WideWidth : Pretty(d, w) = into_text(n)

\* the chain a.b.c.d.e.f.g.h in an equation came out on one line at the
\* narrow width
C16_Witness ==
    /\ pc = "done"
    /\ result.tag = "Ok"
    /\ source.width = NarrowWidth
    /\ \E n \in OuterChains :
          /\ EnclosingMode(n.span) = "Math"
          /\ Len(SegmentsOf(n)) = 8
          /\ Len(into_text(n)) > source.width
          /\ result.text = <<"$">> \o into_text(n) \o <<"$", NL>>

-----------------------------------------------------------------------------
(* Tables without a column count: src/src/pretty/func_call.rs *)

\* the source is one call of a table identifier for which no column count
\* is found, its list not format-disabled
IsTableFallback ==
    /\ attr_store.built
    /\ IsSingleCall(source.root)
    /\ is_table(source.root.ch[2])
    /\ is_formatable_table(source.root.ch[2]) = 0
    /\ TheArgs \notin attr_store.nodes

\* what the as-is mode prints for a child of the list: a comma, one space,
\* a line break and the list's indent for each line break of a whitespace
\* child, and an argument in its converted form
Replayed(child) ==
    IF child.kind = "Comma" THEN <<",">>
    ELSE IF child.kind = "Space"
    THEN (IF NewlineCount(child.text) = 0 THEN <<SP>>
          ELSE Concat([k \in 1..NewlineCount(child.text) |-> <<NL, SP, SP>>]))
    ELSE IF is_comment_node(child) THEN child.text
    ELSE Pretty(convert_arg(attr_store.nodes, "Markup", child), WideWidth)

\* the text of the call with its list replayed as it is
ReplayedCall ==
    LET inner == get_parenthesized_args_untyped(TheArgs)
    IN  <<"#">> \o into_text(source.root.ch[2].ch[1]) \o <<"(">>
        \o Concat([i \in DOMAIN inner |-> Replayed(inner[i])]) \o <<")">>

\* the document of the source had the list been laid out by
\* convert_parenthesized_args
ListEngineDoc ==
    LET func_call == source.root.ch[2] IN
    Cat(<<Cat(<<trivia_prefix(source.root.ch[1]),
                Group(Cat(<<convert_expr(attr_store.nodes, "Markup", func_call.ch[1]),
                            convert_parenthesized_args(attr_store.nodes, "Markup", TheArgs),
                            convert_additional_args(attr_store.nodes, "Markup", TheArgs, TRUE)>>))>>)>>)

\* the source is an equation holding one call
IsCallInEquation(root) ==
    /\ Len(root.ch) = 1
    /\ root.ch[1].kind = "Equation"
    /\ Len(root.ch[1].ch) = 3
    /\ Len(root.ch[1].ch[2].ch) = 1
    /\ root.ch[1].ch[2].ch[1].kind = "FuncCall"

-----------------------------------------------------------------------------
(* Trailing content blocks: src/src/pretty/func_call.rs *)

\* the source is one call whose argument list ends with a content block
IsCallWithBlocks(root) ==
    /\ Len(root.ch) = 2
    /\ root.ch[1].kind = "Hash"
    /\ root.ch[2].kind = "FuncCall"
    /\ root.ch[2].ch[2].kind = "Args"
    /\ root.ch[2].ch[2].ch # <<>>
    /\ root.ch[2].ch[2].ch[Len(root.ch[2].ch[2].ch)].kind = "ContentBlock"

\* the content blocks that follow the parenthesized list, or all of them
\* when there is none
BlocksOf(args) ==
    LET r == FirstIndex(args.ch, "RightParen")
    IN  SelectSeq(SubSeq(args.ch, r + 1, Len(args.ch)), LAMBDA n : n.kind = "ContentBlock")

\* the content block holds one word and nothing else
IsPlainBlock(n) ==
    /\ n.kind = "ContentBlock"
    /\ Len(n.ch) = 3
    /\ Len(n.ch[2].ch) = 1
    /\ n.ch[2].ch[1].kind = "Text"

\* the text s ends with the text t
EndsWith(s, t) == Len(t) <= Len(s) /\ SubSeq(s, Len(s) - Len(t) + 1, Len(s)) = t

\* C18: a call with trailing content blocks is printed callee, parenthesized
\* list, then the blocks in source order, nothing between the closing
\* parenthesis and the first block or between two blocks; every argument of
\* the call is converted once, by the list or as a trailing block
C18_TrailingBlocksFollowList ==
    (pc = "done" /\ result.tag = "Ok" /\ IsCallWithBlocks(source.root)) =>
        LET func_call == source.root.ch[2]
            args == func_call.ch[2]
            has_paren == has_parenthesized_args(func_call)
            blocks == BlocksOf(args)
            blocks_text == Concat([i \in DOMAIN blocks |-> into_text(blocks[i])])
            list_text == IF has_paren
                         THEN Pretty(convert_parenthesized_args(attr_store.nodes, "Markup", args),
                                     WideWidth)
                         ELSE <<>>
        IN  /\ additional_args(args, has_paren) = blocks
            /\ (IF has_paren THEN get_parenthesized_args(args) ELSE <<>>)
                   \o additional_args(args, has_paren) = SelectSeq(args.ch, IsArg)
            /\ (\A i \in DOMAIN blocks : IsPlainBlock(blocks[i])) =>
                  /\ EndsWith(rendered[1],
                              (IF has_paren THEN <<")">> ELSE <<>>) \o blocks_text)
                  /\ source.width = WideWidth =>
                        rendered[1] = <<"#">> \o into_text(func_call.ch[1])
                                          \o list_text \o blocks_text

\* #link("http://example.com")[test] came out unchanged
C18_Witness ==
    /\ pc = "done"
    /\ result.tag = "Ok"
    /\ IsCallWithBlocks(source.root)
    /\ source.root.ch[2].ch[1].text = <<"l", "i", "n", "k">>
    /\ Len(BlocksOf(source.root.ch[2].ch[2])) = 1
    /\ IsPlainBlock(BlocksOf(source.root.ch[2].ch[2])[1])
    /\ rendered[1] = into_text(source.root)
    /\ result.text = into_text(source.root) \o <<NL>>

-----------------------------------------------------------------------------
(* format_with_width on a text, sound or cut short: lib.rs *)

\* the first k characters of the text t
Prefix(t, k) == SubSeq(t, 1, k)

\* the texts handed to format_with_width: the calls "#f(...)" and every
\* text one of them starts with, such as "#", "#f(" and "#f(a,"
WidthTexts ==
    UNION {{Prefix(into_text(t), k) : k \in 0..Len(into_text(t))} : t \in CallSources}

\* what format_with_width returned
Returned(text) == [tag |-> "String", text |-> text]

\* the result unwrapped without the fallback: the empty text on an error
unwrap_or_else_mut(res, original) == res.text

\* .unwrap_or_else(|_| content.to_string())
unwrap_or_else(res, original) == IF res.tag = "Ok" THEN res.text ELSE original

InitWidth ==
    /\ content \in {<<t>> : t \in WidthTexts}
    /\ source \in {[root |-> NoSource.root, width |-> w] : w \in {NarrowWidth, WideWidth}}
    /\ pc = "call"
    /\ attr_store = NoStore
    /\ doc = <<>>
    /\ rendered = <<>>
    /\ result = NoResult
    /\ mode = <<>>
    /\ frames = <<>>

\* self.format_source(&Source::detached(content.into()))
format_content ==
    /\ pc = "call"
    /\ source' = [root |-> Numbered(parse(content[1]), <<>>), width |-> source.width]
    /\ pc' = "start"
    /\ UNCHANGED <<attr_store, doc, rendered, result, mode, frames, content>>

\* format_with_width returns the result of format_content, unwrapped
format_with_width ==
    /\ pc = "done"
    /\ result' = Returned(unwrap_or_else(result, content[1]))
    /\ pc' = "returned"
    /\ UNCHANGED <<source, attr_store, doc, rendered, mode, frames, content>>

NextWidth ==
    \/ format_content
    \/ format_source_check
    \/ format_source_attr
    \/ format_source_convert
    \/ format_source_render
    \/ format_source_strip
    \/ format_with_width

SpecWidth == InitWidth /\ [][NextWidth]_vars

\* C19: format_with_width returns the content unchanged when its tree is
\* erroneous, without a store, a document or a rendered text having been
\* built, and the formatted text otherwise; no call ends in a panic
C19_ErroneousContentUnchanged ==
    /\ pc # "panicked"
    /\ pc # "call" => source.root = Numbered(parse(content[1]), <<>>)
    /\ pc = "returned" =>
          IF erroneous(source.root)
          THEN /\ result = Returned(content[1])
               /\ attr_store = NoStore
               /\ doc = <<>>
               /\ rendered = <<>>
          ELSE /\ rendered = <<Pretty(convert_markup(get_no_format_nodes(source.root),
                                                     source.root), source.width)>>
               /\ result = Returned(strip_trailing_whitespace(rendered[1]))

\* a call cut short before its right parenthesis came back as it was
C19_Witness ==
    /\ pc = "returned"
    /\ erroneous(source.root)
    /\ Len(content[1]) >= 3
    /\ content[1][3] = "("
    /\ result.text = content[1]

\* a sound call came back formatted and changed
C19_FormattedReached ==
    /\ pc = "returned"
    /\ ~erroneous(source.root)
    /\ result.text # content[1]

-----------------------------------------------------------------------------
(* The kind test of the attribute pass: src/src/prop.rs *)

\* the kinds the test of get_no_format_nodes_impl names
TestedKinds == {"ContentBlock", "CodeBlock", "Code"}

\* C20: every node over whose children get_no_format_nodes_impl runs its
\* loop and that has a line comment or block comment among them is in the
\* no-format set, with or without the marker in the comment and whatever
\* the node's kind, the three kinds the test names included
C20_CommentParentInserted ==
    attr_store.built =>
        \A p \in Paths(source.root) :
            LET n == NodeAt(source.root, p) IN
            (WalkedAt(p) /\ HasCommentChild(n)) =>
                /\ KindTest(n)
                /\ n \in attr_store.nodes

\* the body of a code block holds a comment without the marker and is in
\* the set
C20_Witness ==
    /\ attr_store.built
    /\ \E p \in Paths(source.root) :
          LET n == NodeAt(source.root, p) IN
          /\ n.kind \in TestedKinds
          /\ WalkedAt(p)
          /\ HasCommentChild(n)
          /\ \A i \in DOMAIN n.ch : ~IsSentinel(n.ch[i])
          /\ n \in attr_store.nodes

-----------------------------------------------------------------------------
(* The as-is argument mode: src/src/pretty/func_call.rs *)

\* a child of the list as the source has it: a comma, the characters of a
\* whitespace child, the text of a comment, and an argument in its converted
\* form
Verbatim(child) ==
    IF child.kind \in {"Comma", "Space"} \/ is_comment_node(child) THEN child.text
    ELSE Pretty(convert_arg(attr_store.nodes, "Markup", child), WideWidth)

\* the text of the call with the source between its parentheses kept
VerbatimCall ==
    LET inner == get_parenthesized_args_untyped(TheArgs)
    IN  <<"#">> \o into_text(source.root.ch[2].ch[1]) \o <<"(">>
        \o Concat([i \in DOMAIN inner |-> Verbatim(inner[i])]) \o <<")">>

\* C21: a list printed by convert_parenthesized_args_as_is comes out with one
\* converted argument per argument, one comma per comma, every comment as
\* written and every whitespace child with exactly its characters
C21_AsIsReplaysVerbatim ==
    (pc = "done" /\ IsTableFallback) => rendered[1] = VerbatimCall

\* the as-is mode was applied to a list holding a run of two spaces
AsIsDoubleSpaceReached ==
    /\ pc = "done"
    /\ IsTableFallback
    /\ \E i \in DOMAIN TheArgs.ch : TheArgs.ch[i].text = <<SP, SP>>
    /\ rendered[1] = ReplayedCall
    /\ rendered[1] # VerbatimCall

-----------------------------------------------------------------------------
(* Comments in a code body: src/src/pretty/mod.rs, convert_code *)

\* the source is one code block "#{...}" that is converted, not kept as
\* written
IsCodeBlockSource(root) ==
    /\ Len(root.ch) = 2
    /\ root.ch[1].kind = "Hash"
    /\ root.ch[2].kind = "CodeBlock"
    /\ \E i \in DOMAIN root.ch[2].ch : root.ch[2].ch[i].kind = "Code"

\* the nodes convert_code_block hands to convert_code, trailing whitespace
\* stripped
CodeNodes(code_block) ==
    StripTrailingSpace(Concat([i \in DOMAIN code_block.ch |->
        LET node == code_block.ch[i] IN
        IF node.kind = "Code" THEN node.ch
        ELSE IF node.kind = "Space" \/ is_comment_node(node) THEN <<node>>
        ELSE <<>>]))

\* the greatest member of a non-empty set of numbers
Greatest(S) == CHOOSE k \in S : \A l \in S : l <= k

\* no whitespace with a line break between nodes j and i
SameLine(code, j, i) ==
    \A k \in (j + 1)..(i - 1) : ~(code[k].kind = "Space" /\ Contains(code[k].text, NL))

\* as claimed: the comment at i follows an expression that is the last node
\* before it other than whitespace, on the same line
AttachesAfterLastNonSpace(code, i) ==
    LET before == {j \in 1..(i - 1) : code[j].kind # "Space"}
    IN  /\ before # {}
        /\ IsExpr(code[Greatest(before)])
        /\ SameLine(code, Greatest(before), i)

\* the comment at i follows an expression that is the last expression or
\* comment before it, on the same line; a semicolon between them is passed
\* over
AttachesAfterLastItem(code, i) ==
    LET before == {j \in 1..(i - 1) : IsExpr(code[j]) \/ is_comment_node(code[j])}
    IN  /\ before # {}
        /\ IsExpr(code[Greatest(before)])
        /\ SameLine(code, Greatest(before), i)

\* the comment at i attaches, by the rule named
Attaches(rule, code, i) ==
    IF rule = "LastNonSpace" THEN AttachesAfterLastNonSpace(code, i)
    ELSE AttachesAfterLastItem(code, i)

RECURSIVE ItemsByRule(_, _, _, _)
\* the items of a code body when the comments attach as the rule says: an
\* expression is an item, a comment is appended to the last item after one
\* space or is an item of its own
ItemsByRule(code, i, items, rule) ==
    IF i > Len(code) THEN items
    ELSE LET node == code[i] IN
         IF IsExpr(node)
         THEN ItemsByRule(code, i + 1,
                  Append(items, convert_expr(attr_store.nodes, "Code", node)), rule)
         ELSE IF is_comment_node(node)
         THEN (IF Attaches(rule, code, i)
               THEN ItemsByRule(code, i + 1,
                        Append(SubSeq(items, 1, Len(items) - 1),
                               Cat(<<items[Len(items)], Space, convert_comment(node)>>)),
                        rule)
               ELSE ItemsByRule(code, i + 1, Append(items, convert_comment(node)), rule))
         ELSE ItemsByRule(code, i + 1, items, rule)

\* the items convert_code made of the code block of the source, the empty
\* items of blank lines left out
CodeItems ==
    SelectSeq(convert_code(attr_store.nodes, CodeNodes(source.root.ch[2]), 1, <<>>,
                           CanAttachAtStart),
              LAMBDA d : d # Nil)

\* the expressions and comments of a code body, in order
ExprsAndComments(code) == SelectSeq(code, LAMBDA n : IsExpr(n) \/ is_comment_node(n))

RECURSIVE TextsIn(_)
\* the texts of a document, in order
TextsIn(d) ==
    IF d.t = "text" THEN <<d.s>> ELSE Concat([i \in DOMAIN d.ds |-> TextsIn(d.ds[i])])

\* C22 (as claimed): a comment of a code body is appended to the preceding
\* item, after one space, exactly when the last node before it that is not
\* whitespace is an expression on the same line, and is an item of its own
\* otherwise; expressions and comments keep their number and order
C22_CommentAttachesAfterLastNonSpace ==
    (pc = "done" /\ IsCodeBlockSource(source.root)) =>
        CodeItems = ItemsByRule(CodeNodes(source.root.ch[2]), 1, <<>>, "LastNonSpace")

\* C22 (amended): a comment of a code body is appended to the preceding
\* item, after one space, exactly when the last expression or comment before
\* it is an expression and no whitespace with a line break lies between them,
\* a semicolon between them or not; otherwise it is an item of its own;
\* expressions and comments keep their number and order (read off the texts
\* of the items when every expression is a single token)
C22_CommentAttachesAfterLastItem ==
    (pc = "done" /\ IsCodeBlockSource(source.root)) =>
        LET code == CodeNodes(source.root.ch[2]) IN
        /\ CodeItems = ItemsByRule(code, 1, <<>>, "LastItem")
        /\ (\A i \in DOMAIN code : code[i].ch = <<>>) =>
              SelectSeq(Concat([i \in DOMAIN CodeItems |-> TextsIn(CodeItems[i])]),
                        LAMBDA t : t # <<SP>>)
                 = [i \in DOMAIN ExprsAndComments(code) |-> ExprsAndComments(code)[i].text]

\* "#{a; /* c */ b}" was printed with the comment on the line of a
C22_Witness ==
    /\ pc = "done"
    /\ result.tag = "Ok"
    /\ IsCodeBlockSource(source.root)
    /\ source.root.ch[2] \notin attr_store.nodes
    /\ LET code == CodeNodes(source.root.ch[2]) IN
       \E i \in DOMAIN code :
          /\ is_comment_node(code[i])
          /\ AttachesAfterLastItem(code, i)
          /\ ~AttachesAfterLastNonSpace(code, i)
    /\ result.text = <<"#", "{", NL, SP, SP, "a", SP>> \o BlockComment.text
                        \o <<NL, SP, SP, "b", NL, "}", NL>>

-----------------------------------------------------------------------------
(* convert_named and convert_keyed, one classifier call at a time:          *)
(* src/src/pretty/code_flow.rs                                              *)

Colon == Leaf("Colon", <<":">>)

\* "k"
StrKey == Leaf("Str", <<"\"", "k", "\"">>)

\* the whitespace before and after the colon
BeforeColon == {<<>>, <<SP>>}
AfterColon == {<<>>, <<SP>>, <<SP, SP>>}

\* the values of a pair: a number, a name, a call, an embedded name "#a" (in
\* the argument of a math call), and the placeholder "_" of a pattern
FlowValues == {<<Leaf("Int", <<"1">>)>>, <<Ident("a")>>, <<ArgCall>>}
NamedOnlyValues == {<<Hash, Ident("a")>>, <<Leaf("Underscore", <<"_">>)>>}

\* the pairs "x: value" and "key: value"
NamedNodes ==
    {Inner("Named", <<Ident("x")>> \o OptSpace(pre) \o <<Colon>> \o OptSpace(post) \o value) :
        pre \in BeforeColon, post \in AfterColon, value \in FlowValues \cup NamedOnlyValues}

KeyedNodes ==
    {Inner("Keyed", <<key>> \o OptSpace(pre) \o <<Colon>> \o OptSpace(post) \o value) :
        key \in {StrKey, ArgCall}, pre \in BeforeColon, post \in AfterColon,
        value \in FlowValues}

\* the converter of a pair, by its kind
FlowFn(node) == IF node.kind = "Named" THEN "convert_named" ELSE "convert_keyed"

\* the frame of convert_flow_like: the child the classifier is called on
\* next, and the seen flag the closure has captured
FlowFrame(fn, i, seen) == [fn |-> fn, path |-> <<>>, i |-> i, seen |-> seen]

\* let mut seen_name = false; self.convert_flow_like(named.to_untyped(), ...)
InitFlow ==
    /\ source \in {[root |-> Numbered(n, <<>>), width |-> w] :
                      n \in NamedNodes \cup KeyedNodes, w \in {NarrowWidth, WideWidth}}
    /\ pc = "flow"
    /\ attr_store = [built |-> TRUE, nodes |-> get_no_format_nodes(source.root)]
    /\ doc = <<>>
    /\ rendered = <<>>
    /\ result = NoResult
    /\ mode = <<>>
    /\ frames = <<FlowFrame(FlowFn(source.root), 1, FALSE)>>
    /\ content = <<>>

\* convert_flow_like calls the classifier on the next child and keeps its
\* item
classify ==
    /\ pc = "flow"
    /\ frames[1].i <= Len(source.root.ch)
    /\ LET f == frames[1]
           r == flow_classifier(f.fn, attr_store.nodes, "Code", source.root.ch[f.i], f.seen)
       IN  /\ doc' = Append(doc, r.item)
           /\ frames' = <<FlowFrame(f.fn, f.i + 1, r.seen)>>
    /\ UNCHANGED <<source, pc, attr_store, rendered, result, mode, content>>

\* convert_flow_like joins the items, and the pair is printed
join_items ==
    /\ pc = "flow"
    /\ frames[1].i > Len(source.root.ch)
    /\ rendered' = <<Pretty(convert_flow_like(doc), source.width)>>
    /\ pc' = "done"
    /\ UNCHANGED <<source, attr_store, doc, result, mode, frames, content>>

NextFlow ==
    \/ classify
    \/ join_items

SpecFlow == InitFlow /\ [][NextFlow]_vars

\* the pair as it is to be printed: name or key, a colon, one space, and the
\* value as convert_expr prints it, a "#" before an embedded value
PairText ==
    LET exprs == SelectSeq(source.root.ch, IsExpr)
        shown(n) == Pretty(convert_expr(attr_store.nodes, "Code", n), WideWidth)
        value == source.root.ch[Len(source.root.ch)]
    IN  shown(source.root.ch[1]) \o <<":", SP>>
        \o (IF \E i \in DOMAIN source.root.ch : source.root.ch[i].kind = "Hash"
            THEN <<"#">> ELSE <<>>)
        \o (IF value.kind = "Underscore" THEN <<"_">> ELSE shown(value))

\* C23: of the children of a named or keyed pair walked in order, the first
\* expression converted (the name or key) has no leading space and every
\* later one has it, the seen flag being down at the first call that
\* converts an expression and up at every later call; the colon is tight
\* before and spaced after; a child that is neither colon, hash, expression
\* nor pattern gives no item; the pair is printed name, colon, one space,
\* value
C23_SeenFlagSpacesLaterExpressions ==
    pc \in {"flow", "done"} =>
        /\ Len(doc) = frames[1].i - 1
        /\ frames[1].seen = (\E j \in 1..Len(doc) : IsExpr(source.root.ch[j]))
        /\ \A j \in 1..Len(doc) :
              LET child == source.root.ch[j] IN
              /\ child.kind = "Colon" => doc[j] = FlowItem(Text(<<":">>), FALSE, TRUE)
              /\ IsExpr(child) =>
                    /\ doc[j].present
                    /\ doc[j].before = (ExprsBefore(source.root, j) > 0)
              /\ child.kind \notin {"Colon", "Hash", "Underscore"} /\ ~IsExpr(child) =>
                    ~doc[j].present
        /\ pc = "done" =>
              /\ rendered = <<PairText>>
              /\ source.root.kind = "Named" =>
                    convert_flow_like(doc) = convert_named(attr_store.nodes, "Code", source.root)

\* "x:1" was printed as "x: 1": the name without and the value with its
\* leading space
C23_Witness ==
    /\ pc = "done"
    /\ Len(source.root.ch) = 3
    /\ into_text(source.root) = <<"x", ":", "1">>
    /\ ~doc[1].before
    /\ doc[3].before
    /\ rendered = <<<<"x", ":", SP, "1">>>>

-----------------------------------------------------------------------------
(* to_doc on a text, and the text it is rendered to: src/src/pretty/mod.rs *)

\* the most lines of a text handed to to_doc
MaxLines == 3

\* a line longer than the narrow width
LongLine == [i \in 1..(NarrowWidth + 2) |-> "a"]

\* the lines of the texts: empty, blank, a word with and without blanks
\* before and after it, and a long one
LineTexts == {<<>>, <<SP>>, <<"a">>, <<SP, "a">>, <<TAB, SP, "a", SP>>, <<"a", SP, "b">>,
              LongLine}

\* the sequences of up to n lines
LinesUpTo(n) == UNION {[1..k -> LineTexts] : k \in 0..n}

\* the texts whose line breaks are all "\n": lines joined by "\n", with and
\* without a line break at the end
DocTexts ==
    {Join(ls, <<NL>>) \o end : ls \in LinesUpTo(MaxLines), end \in {<<>>, <<NL>>}}

StripModes == {"None", "Prefix", "PrefixOnBoundaryMarkers"}

\* the call to_doc(s, strip_prefix)
ToDocFrame(strip_prefix) == [fn |-> "to_doc", path |-> <<>>, i |-> 1, strip_prefix |-> strip_prefix]

InitDoc ==
    /\ content \in {<<s>> : s \in DocTexts}
    /\ source \in {[root |-> NoSource.root, width |-> w] : w \in {NarrowWidth, WideWidth}}
    /\ pc = "to_doc"
    /\ attr_store = NoStore
    /\ doc = <<>>
    /\ rendered = <<>>
    /\ result = NoResult
    /\ mode = <<>>
    /\ frames \in {<<ToDocFrame(sm)>> : sm \in StripModes}

\* to_doc(&arena, s, strip_prefix)
to_doc_call ==
    /\ pc = "to_doc"
    /\ doc' = <<to_doc(content[1], frames[1].strip_prefix)>>
    /\ pc' = "converted"
    /\ UNCHANGED <<source, attr_store, rendered, result, mode, frames, content>>

NextDoc ==
    \/ to_doc_call
    \/ format_source_render

SpecDoc == InitDoc /\ [][NextDoc]_vars

\* the places of the line breaks of a text
BreaksOf(s) == {i \in DOMAIN s : s[i] = NL}

\* the text s ends with a line break
EndsWithNewline(s) == s # <<>> /\ s[Len(s)] = NL

\* the number of lines of s: one per line break, and one more for what
\* follows the last line break
LineCount(s) ==
    Cardinality(BreaksOf(s)) + (IF s # <<>> /\ ~EndsWithNewline(s) THEN 1 ELSE 0)

\* line k of s: what stands between line break k - 1 and line break k, or
\* the end of s
LineOf(s, k) ==
    LET from == IF k = 1 THEN 1
                ELSE (CHOOSE i \in BreaksOf(s) :
                          Cardinality({j \in BreaksOf(s) : j < i}) = k - 2) + 1
        later == {i \in BreaksOf(s) : i >= from}
        to == IF later = {} THEN Len(s) ELSE (CHOOSE i \in later : \A j \in later : i <= j) - 1
    IN  SubSeq(s, from, to)

\* a line without the whitespace it starts with
DropLeading(line) ==
    LET solid == {i \in DOMAIN line : line[i] \notin WhiteSpace}
    IN  IF solid = {} THEN <<>>
        ELSE SubSeq(line, CHOOSE i \in solid : \A j \in solid : i <= j, Len(line))

\* s with the leading whitespace of the lines numbered in trimmed removed
WithoutLeading(s, trimmed) ==
    Join([k \in 1..LineCount(s) |->
             IF k \in trimmed THEN DropLeading(LineOf(s, k)) ELSE LineOf(s, k)], <<NL>>)
    \o (IF EndsWithNewline(s) THEN <<NL>> ELSE <<>>)

\* the hard line breaks of a document
RECURSIVE HardlinesIn(_)
HardlinesIn(d) ==
    IF d.t = "hardline" THEN 1
    ELSE IF d.ds = <<>> THEN 0
    ELSE LET counts == [i \in DOMAIN d.ds |-> HardlinesIn(d.ds[i])]
             sum[i \in 0..Len(counts)] == IF i = 0 THEN 0 ELSE sum[i - 1] + counts[i]
         IN  sum[Len(counts)]

\* C24: to_doc(s, None) of a text s whose line breaks are all "\n", the empty
\* text included, is one text per line of s in order, a hard line break
\* between two lines and one more exactly when s ends with a line break, and
\* is rendered to s itself at any width; with Prefix every line loses its
\* leading whitespace, with PrefixOnBoundaryMarkers the first and the last
\* line only
C24_ToDocRoundTrip ==
    pc \in {"converted", "rendered"} =>
        LET s == content[1]
            n == LineCount(s)
            strip_prefix == frames[1].strip_prefix
            trimmed == CASE strip_prefix = "None" -> {}
                         [] strip_prefix = "Prefix" -> 1..n
                         [] strip_prefix = "PrefixOnBoundaryMarkers" -> {1, n}
        IN  /\ TextsIn(doc[1]) =
                  [k \in 1..n |-> IF k \in trimmed THEN DropLeading(LineOf(s, k))
                                  ELSE LineOf(s, k)]
            /\ HardlinesIn(doc[1]) = Cardinality(BreaksOf(s))
            /\ pc = "rendered" =>
                  /\ rendered[1] = WithoutLeading(s, trimmed)
                  /\ strip_prefix = "None" => rendered[1] = s

\* three indented lines and a line break at the end came back as they were
\* under None, and with the middle line alone still indented under
\* PrefixOnBoundaryMarkers
C24_Witness ==
    /\ pc = "rendered"
    /\ LineCount(content[1]) = 3
    /\ EndsWithNewline(content[1])
    /\ \A k \in 1..3 : LineOf(content[1], k) = <<SP, "a">>
    /\ \/ frames[1].strip_prefix = "None" /\ rendered[1] = content[1]
       \/ /\ frames[1].strip_prefix = "PrefixOnBoundaryMarkers"
          /\ rendered[1] = <<"a", NL, SP, "a", NL, "a", NL>>

=============================================================================
